---- MODULE Spec2Model ----
(***************************************************************************)
(* Model of the halo2 circuit arithmetization: columns, deferred-fraction  *)
(* witness values (Assigned), polynomial expressions and the               *)
(* ConstraintSystem built during circuit configuration.                    *)
(*                                                                         *)
(* The module holds several specifications over one set of variables.      *)
(* Each specification drives one part of the program and leaves the        *)
(* variables of the other parts at their idle values.                      *)
(***************************************************************************)
EXTENDS Integers, Naturals, Sequences, FiniteSets, TLC

VARIABLES
    \* ---- Assigned<F> arithmetic (src/plonk/circuit.rs:266-420)
    lhs,            \* left operand, an Assigned value
    rhs,            \* right operand, an Assigned value
    aop,            \* the operator applied last ("none" before any)
    ares,           \* the Assigned value that operator returned
    aval,           \* outcome of Assigned::evaluate on ares
    \* ---- Column ordering (src/plonk/circuit.rs:41-65)
    ca, cb, cc,     \* three columns
    ord,            \* results of the comparisons made on them
    \* ---- Expression<F> (src/plonk/circuit.rs:556-702)
    expr,           \* the expression built so far
    eop,            \* how expr was built last: operator and operands
    ev,             \* outcome of the last Expression::evaluate calls
    \* ---- ConstraintSystem<F> (src/plonk/circuit.rs:789-1107)
    num_fixed_columns,
    num_advice_columns,
    num_instance_columns,
    gates,
    advice_queries,
    instance_queries,
    fixed_queries,
    permutations,
    lookups,
    allocated,      \* per allocator, the columns it has handed out, in order
    returned,       \* what create_gate, lookup and permutation returned, the
                    \* number of queries made, degree() before the last call
    issued,         \* every (kind, column, rotation, index) a query returned
    first_seen,     \* per kind, the distinct pairs in order of first query
    panicked,       \* TRUE once create_gate hit its assertion
    \* ---- Layouter, Region (src/circuit.rs:107-313), floor planner V1
    \* ---- (src/circuit/floor_planner/v1.rs), WitnessCollection
    \* ---- (src/plonk/prover.rs:116-213)
    script,         \* the layouter calls Circuit::synthesize makes, in order
    pass,           \* where V1::synthesize is: "measurement", "placement",
                    \* "assignment" or "returned"
    ran,            \* the stages V1::synthesize has entered, in order
    pc,             \* calls of script made in the current pass
    guards,         \* the live NamespacedLayouter values, innermost last
    root,           \* push_namespace and pop_namespace calls V1Pass received
    measure,        \* MeasurementPass.regions
    plan,           \* V1Plan.regions
    replanned,      \* outcome of running the placement a second time
    region_index,   \* AssignmentPass.region_index
    sink,           \* the calls the Assignment sink received, in order
    advice,         \* WitnessCollection.advice
    given,          \* per pass, the region index each assign_region used
    region_calls,   \* every call made on a Region, with what it returned
    result,         \* what V1::synthesize returned
    \* ---- create_proof (src/plonk/prover.rs:29-554)
    circuit_type,   \* the calls ConcreteCircuit::configure makes
    pk,             \* the proving key: pk.vk.cs is its constraint system
    instances,      \* per instance set, the number of its columns
    circuits,       \* the number of circuits
    prover_meta,    \* meta, the constraint system create_proof configures
    step,           \* where create_proof stands
    transcript,     \* the operations made on the transcript, in order
    configured,     \* calls of ConcreteCircuit::configure made
    synthesized,    \* what FloorPlanner::synthesize returned, per circuit
    opening,        \* how multiopen::create_proof ended, "none" before
    proof,          \* what create_proof returned
    \* ---- the lookup verifier (src/plonk/lookup/verifier.rs)
    reads,          \* the reads made on the transcript, in order
    lk,             \* the stage value the verifier holds
    lookup_in,      \* the arguments of the last call on an Evaluated
    lookup_out      \* what that call returned

assignedVars == <<lhs, rhs, aop, ares, aval>>
columnVars == <<ca, cb, cc, ord>>
exprVars == <<expr, eop, ev>>
csVars == <<num_fixed_columns, num_advice_columns, num_instance_columns,
            gates, advice_queries, instance_queries, fixed_queries,
            permutations, lookups, allocated, returned, issued, first_seen,
            panicked>>
v1Vars == <<script, pass, ran, pc, guards, root, measure, plan, replanned,
           region_index, sink, advice, given, region_calls, result>>
proofVars == <<circuit_type, pk, instances, circuits, prover_meta, step,
               transcript, configured, synthesized, opening, proof>>
lookupVars == <<reads, lk, lookup_in, lookup_out>>
vars == <<assignedVars, columnVars, exprVars, csVars, v1Vars, proofVars,
          lookupVars>>

(***************************************************************************)
(* The field F.  The program works over a 255-bit prime field; the model   *)
(* uses the prime field of FieldPrimes[FieldIdx] elements.                 *)
(***************************************************************************)
FieldPrimes == <<2, 3, 5, 7, 11>>
FieldIdx == 3
P == FieldPrimes[FieldIdx]
F == 0 .. (P - 1)

FZero == 0
FOne == 1 % P
FAdd(a, b) == (a + b) % P
FMul(a, b) == (a * b) % P
FNeg(a) == (P - a) % P
FSub(a, b) == FAdd(a, FNeg(b))

\* Field::invert returns a CtOption: none for zero, else the inverse.
FInvert(a) ==
    IF a = FZero
    THEN [is_some |-> FALSE, value |-> FZero]
    ELSE [is_some |-> TRUE, value |-> CHOOSE y \in F : FMul(a, y) = FOne]

unwrap_or(opt, default) == IF opt.is_some THEN opt.value ELSE default

Max(a, b) == IF a >= b THEN a ELSE b

(***************************************************************************)
(* Assigned<F>: Zero | Trivial(F) | Rational(F, F)                         *)
(***************************************************************************)
Zero == [tag |-> "Zero"]
Trivial(x) == [tag |-> "Trivial", x |-> x]
Rational(n, d) == [tag |-> "Rational", numerator |-> n, denominator |-> d]

AssignedValues ==
    {Zero} \cup {Trivial(x) : x \in F}
           \cup {Rational(n, d) : n \in F, d \in F}

\* impl Neg for Assigned<F>
AssignedNeg(a) ==
    CASE a.tag = "Zero" -> Zero
      [] a.tag = "Trivial" -> Trivial(FNeg(a.x))
      [] a.tag = "Rational" -> Rational(FNeg(a.numerator), a.denominator)

\* A slip in add: an operand over a zero denominator is taken for Zero.
AssignedAddUndefinedAsZero(a, b) ==
    CASE a.tag = "Zero" \/ (a.tag = "Rational" /\ a.denominator = FZero) -> b
      [] b.tag = "Zero" \/ (b.tag = "Rational" /\ b.denominator = FZero) -> a
      [] a.tag = "Trivial" /\ b.tag = "Trivial" -> Trivial(FAdd(a.x, b.x))
      [] a.tag = "Rational" /\ b.tag = "Trivial" ->
            Rational(FAdd(a.numerator, FMul(a.denominator, b.x)), a.denominator)
      [] a.tag = "Trivial" /\ b.tag = "Rational" ->
            Rational(FAdd(b.numerator, FMul(b.denominator, a.x)), b.denominator)
      [] a.tag = "Rational" /\ b.tag = "Rational" ->
            Rational(FAdd(FMul(a.numerator, b.denominator),
                          FMul(a.denominator, b.numerator)),
                     FMul(a.denominator, b.denominator))

\* A slip in the Rational + Rational arm: the cross term loses a factor.
AssignedAddNoCross(a, b) ==
    CASE a.tag = "Zero" -> b
      [] b.tag = "Zero" -> a
      [] a.tag = "Trivial" /\ b.tag = "Trivial" -> Trivial(FAdd(a.x, b.x))
      [] a.tag = "Rational" /\ b.tag = "Trivial" ->
            Rational(FAdd(a.numerator, FMul(a.denominator, b.x)), a.denominator)
      [] a.tag = "Trivial" /\ b.tag = "Rational" ->
            Rational(FAdd(b.numerator, FMul(b.denominator, a.x)), b.denominator)
      [] a.tag = "Rational" /\ b.tag = "Rational" ->
            Rational(FAdd(FMul(a.numerator, b.denominator), b.numerator),
                     FMul(a.denominator, b.denominator))

\* impl Add for Assigned<F>
AssignedAdd(a, b) ==
    CASE a.tag = "Zero" -> b
      [] b.tag = "Zero" -> a
      [] a.tag = "Trivial" /\ b.tag = "Trivial" -> Trivial(FAdd(a.x, b.x))
      [] a.tag = "Rational" /\ b.tag = "Trivial" ->
            Rational(FAdd(a.numerator, FMul(a.denominator, b.x)), a.denominator)
      [] a.tag = "Trivial" /\ b.tag = "Rational" ->
            Rational(FAdd(b.numerator, FMul(b.denominator, a.x)), b.denominator)
      [] a.tag = "Rational" /\ b.tag = "Rational" ->
            Rational(FAdd(FMul(a.numerator, b.denominator),
                          FMul(a.denominator, b.numerator)),
                     FMul(a.denominator, b.denominator))

\* impl Sub for Assigned<F>
AssignedSub(a, b) == AssignedAdd(a, AssignedNeg(b))

\* A slip in the Rational * Rational arm: the right denominator is lost.
AssignedMulLeftDenominator(a, b) ==
    CASE a.tag = "Zero" \/ b.tag = "Zero" -> Zero
      [] a.tag = "Trivial" /\ b.tag = "Trivial" -> Trivial(FMul(a.x, b.x))
      [] a.tag = "Rational" /\ b.tag = "Trivial" ->
            Rational(FMul(a.numerator, b.x), a.denominator)
      [] a.tag = "Trivial" /\ b.tag = "Rational" ->
            Rational(FMul(b.numerator, a.x), b.denominator)
      [] a.tag = "Rational" /\ b.tag = "Rational" ->
            Rational(FMul(a.numerator, b.numerator), a.denominator)

\* impl Mul for Assigned<F>
AssignedMul(a, b) ==
    CASE a.tag = "Zero" \/ b.tag = "Zero" -> Zero
      [] a.tag = "Trivial" /\ b.tag = "Trivial" -> Trivial(FMul(a.x, b.x))
      [] a.tag = "Rational" /\ b.tag = "Trivial" ->
            Rational(FMul(a.numerator, b.x), a.denominator)
      [] a.tag = "Trivial" /\ b.tag = "Rational" ->
            Rational(FMul(b.numerator, a.x), b.denominator)
      [] a.tag = "Rational" /\ b.tag = "Rational" ->
            Rational(FMul(a.numerator, b.numerator),
                     FMul(a.denominator, b.denominator))

\* A slip in invert: the Trivial arm puts the value over one.
AssignedInvertTrivialOverOne(a) ==
    CASE a.tag = "Zero" -> Zero
      [] a.tag = "Trivial" -> Rational(a.x, FOne)
      [] a.tag = "Rational" -> Rational(a.denominator, a.numerator)

\* Assigned::invert
AssignedInvert(a) ==
    CASE a.tag = "Zero" -> Zero
      [] a.tag = "Trivial" -> Rational(FOne, a.x)
      [] a.tag = "Rational" -> Rational(a.denominator, a.numerator)

\* Outcome of a call that either returns a field element or panics.
Returned(v) == [panicked |-> FALSE, value |-> v]
Panic == [panicked |-> TRUE, value |-> FZero]

\* A slip in evaluate: the inversion result is unwrapped, which panics on a
\* zero denominator.
AssignedEvaluateUnwrap(a) ==
    CASE a.tag = "Zero" -> Returned(FZero)
      [] a.tag = "Trivial" -> Returned(a.x)
      [] a.tag = "Rational" ->
            IF a.denominator = FOne
            THEN Returned(a.numerator)
            ELSE IF FInvert(a.denominator).is_some
                 THEN Returned(FMul(a.numerator, FInvert(a.denominator).value))
                 ELSE Panic

\* Assigned::evaluate
AssignedEvaluate(a) ==
    CASE a.tag = "Zero" -> Returned(FZero)
      [] a.tag = "Trivial" -> Returned(a.x)
      [] a.tag = "Rational" ->
            IF a.denominator = FOne
            THEN Returned(a.numerator)
            ELSE Returned(FMul(a.numerator,
                               unwrap_or(FInvert(a.denominator), FZero)))

NotEvaluated == [done |-> FALSE, of |-> Zero, out |-> Returned(FZero)]

AssignedIdle ==
    /\ lhs = Zero
    /\ rhs = Zero
    /\ aop = "none"
    /\ ares = Zero
    /\ aval = NotEvaluated

\* a + b
DoAdd ==
    /\ aop = "none"
    /\ aop' = "add"
    /\ ares' = AssignedAdd(lhs, rhs)
    /\ UNCHANGED <<lhs, rhs, aval>>

\* a - b
DoSub ==
    /\ aop = "none"
    /\ aop' = "sub"
    /\ ares' = AssignedSub(lhs, rhs)
    /\ UNCHANGED <<lhs, rhs, aval>>

\* a * b
DoMul ==
    /\ aop = "none"
    /\ aop' = "mul"
    /\ ares' = AssignedMul(lhs, rhs)
    /\ UNCHANGED <<lhs, rhs, aval>>

\* -a
DoNeg ==
    /\ aop = "none"
    /\ aop' = "neg"
    /\ ares' = AssignedNeg(lhs)
    /\ UNCHANGED <<lhs, rhs, aval>>

\* a.invert()
DoInvert ==
    /\ aop = "none"
    /\ aop' = "invert"
    /\ ares' = AssignedInvert(lhs)
    /\ UNCHANGED <<lhs, rhs, aval>>

\* r.evaluate() on the value the operator returned
DoEvaluate ==
    /\ aop # "none"
    /\ ~aval.done
    /\ aval' = [done |-> TRUE, of |-> ares, out |-> AssignedEvaluate(ares)]
    /\ UNCHANGED <<lhs, rhs, aop, ares>>

(***************************************************************************)
(* Column<C>: an index and a column type; ordering of columns.             *)
(***************************************************************************)
ColumnTypes == {"Advice", "Fixed", "Instance"}

Column(index, column_type) == [index |-> index, column_type |-> column_type]

\* usize::cmp
index_cmp(i, j) ==
    IF i < j THEN "Less" ELSE IF i = j THEN "Equal" ELSE "Greater"

\* A slip in the cross-type arms: Instance and Fixed are swapped.
cmp_fixed_before_instance(self, other) ==
    LET s == self.column_type
        o == other.column_type
    IN  CASE s = o -> index_cmp(self.index, other.index)
          [] (s = "Advice" /\ o = "Instance")
             \/ (s = "Advice" /\ o = "Fixed")
             \/ (s = "Fixed" /\ o = "Instance") -> "Less"
          [] (s = "Instance" /\ o = "Fixed")
             \/ (s = "Fixed" /\ o = "Advice")
             \/ (s = "Instance" /\ o = "Advice") -> "Greater"

\* impl Ord for Column<C>
cmp(self, other) ==
    LET s == self.column_type
        o == other.column_type
    IN  CASE (s = "Advice" /\ o = "Advice")
             \/ (s = "Instance" /\ o = "Instance")
             \/ (s = "Fixed" /\ o = "Fixed") ->
                index_cmp(self.index, other.index)
          [] (s = "Advice" /\ o = "Instance")
             \/ (s = "Advice" /\ o = "Fixed")
             \/ (s = "Instance" /\ o = "Fixed") -> "Less"
          [] (s = "Fixed" /\ o = "Instance")
             \/ (s = "Fixed" /\ o = "Advice")
             \/ (s = "Instance" /\ o = "Advice") -> "Greater"

\* derive(PartialEq) on Column: field-wise equality
column_eq(self, other) ==
    self.index = other.index /\ self.column_type = other.column_type

\* Largest column index the ordering is exercised on.
MaxIndex == 2
AllColumns == {Column(i, t) : i \in 0 .. MaxIndex, t \in ColumnTypes}

NotCompared ==
    [done |-> FALSE, ab |-> "Equal", ba |-> "Equal", bc |-> "Equal",
     ac |-> "Equal", eq_ab |-> TRUE]

ColumnIdle ==
    /\ ca = Column(0, "Advice")
    /\ cb = Column(0, "Advice")
    /\ cc = Column(0, "Advice")
    /\ ord = NotCompared

\* a.cmp(&b), b.cmp(&a), b.cmp(&c), a.cmp(&c) and a == b
Compare ==
    /\ ~ord.done
    /\ ord' = [done |-> TRUE, ab |-> cmp(ca, cb), ba |-> cmp(cb, ca),
               bc |-> cmp(cb, cc), ac |-> cmp(ca, cc),
               eq_ab |-> column_eq(ca, cb)]
    /\ UNCHANGED <<ca, cb, cc>>

(***************************************************************************)
(* Expression<F>: the polynomial AST                                       *)
(***************************************************************************)
ExprConstant(c) == [tag |-> "Constant", scalar |-> c]
ExprFixed(i) == [tag |-> "Fixed", index |-> i]
ExprAdvice(i) == [tag |-> "Advice", index |-> i]
ExprInstance(i) == [tag |-> "Instance", index |-> i]
Sum(a, b) == [tag |-> "Sum", a |-> a, b |-> b]
Product(a, b) == [tag |-> "Product", a |-> a, b |-> b]
Scaled(a, f) == [tag |-> "Scaled", a |-> a, f |-> f]

\* impl Neg / Add / Sub / Mul / Mul<F> for Expression<F>, and square
ExprNeg(self) == Scaled(self, FNeg(FOne))
ExprAdd(self, other) == Sum(self, other)
ExprSub(self, other) == Sum(self, ExprNeg(other))
ExprMul(self, other) == Product(self, other)
ExprScale(self, f) == Scaled(self, f)
square(self) == ExprMul(self, self)

RECURSIVE ExpressionDegreeSumAdds(_)
\* A slip in degree: a Sum is given the sum of its children's degrees.
ExpressionDegreeSumAdds(e) ==
    CASE e.tag = "Constant" -> 0
      [] e.tag \in {"Fixed", "Advice", "Instance"} -> 1
      [] e.tag = "Sum" ->
            ExpressionDegreeSumAdds(e.a) + ExpressionDegreeSumAdds(e.b)
      [] e.tag = "Product" ->
            ExpressionDegreeSumAdds(e.a) + ExpressionDegreeSumAdds(e.b)
      [] e.tag = "Scaled" -> ExpressionDegreeSumAdds(e.a)

RECURSIVE ExpressionDegree(_)
\* Expression::degree
ExpressionDegree(e) ==
    CASE e.tag = "Constant" -> 0
      [] e.tag = "Fixed" -> 1
      [] e.tag = "Advice" -> 1
      [] e.tag = "Instance" -> 1
      [] e.tag = "Sum" -> Max(ExpressionDegree(e.a), ExpressionDegree(e.b))
      [] e.tag = "Product" -> ExpressionDegree(e.a) + ExpressionDegree(e.b)
      [] e.tag = "Scaled" -> ExpressionDegree(e.a)

RECURSIVE EvaluateProductTwice(_, _)
\* A slip in evaluate: the Product arm folds its left child twice.
EvaluateProductTwice(e, fn) ==
    CASE e.tag = "Constant" -> fn.constant[e.scalar]
      [] e.tag = "Fixed" -> fn.fixed_column[e.index]
      [] e.tag = "Advice" -> fn.advice_column[e.index]
      [] e.tag = "Instance" -> fn.instance_column[e.index]
      [] e.tag = "Sum" ->
            fn.sum[<<EvaluateProductTwice(e.a, fn),
                     EvaluateProductTwice(e.b, fn)>>]
      [] e.tag = "Product" ->
            fn.product[<<EvaluateProductTwice(e.a, fn),
                         EvaluateProductTwice(e.a, fn)>>]
      [] e.tag = "Scaled" ->
            fn.scaled[<<EvaluateProductTwice(e.a, fn), e.f>>]

RECURSIVE Evaluate(_, _)
\* Expression::evaluate; fn holds the seven closures.
Evaluate(e, fn) ==
    CASE e.tag = "Constant" -> fn.constant[e.scalar]
      [] e.tag = "Fixed" -> fn.fixed_column[e.index]
      [] e.tag = "Advice" -> fn.advice_column[e.index]
      [] e.tag = "Instance" -> fn.instance_column[e.index]
      [] e.tag = "Sum" ->
            LET a == Evaluate(e.a, fn)
                b == Evaluate(e.b, fn)
            IN  fn.sum[<<a, b>>]
      [] e.tag = "Product" ->
            LET a == Evaluate(e.a, fn)
                b == Evaluate(e.b, fn)
            IN  fn.product[<<a, b>>]
      [] e.tag = "Scaled" ->
            LET a == Evaluate(e.a, fn)
            IN  fn.scaled[<<a, e.f>>]


\* The closures the lookup verifier passes to evaluate: one field element
\* per query index.
FieldInterp(fixed_evals, advice_evals, instance_evals) ==
    [constant |-> [scalar \in F |-> scalar],
     fixed_column |->
        [index \in 0 .. (Len(fixed_evals) - 1) |-> fixed_evals[index + 1]],
     advice_column |->
        [index \in 0 .. (Len(advice_evals) - 1) |-> advice_evals[index + 1]],
     instance_column |->
        [index \in 0 .. (Len(instance_evals) - 1) |-> instance_evals[index + 1]],
     sum |-> [p \in F \X F |-> FAdd(p[1], p[2])],
     product |-> [p \in F \X F |-> FMul(p[1], p[2])],
     scaled |-> [p \in F \X F |-> FMul(p[1], p[2])]]

\* Number of points of the extended coset a polynomial is tabulated on.
NRows == 2
Rows == 1 .. NRows
Polys == [Rows -> F]

\* The closures create_proof passes to evaluate: polynomials given by their
\* values on the extended coset, combined point by point.
ProverInterp(fixed_cosets, advice_cosets, instance_cosets) ==
    [constant |-> [scalar \in F |-> [r \in Rows |-> scalar]],
     fixed_column |->
        [index \in 0 .. (Len(fixed_cosets) - 1) |-> fixed_cosets[index + 1]],
     advice_column |->
        [index \in 0 .. (Len(advice_cosets) - 1) |-> advice_cosets[index + 1]],
     instance_column |->
        [index \in 0 .. (Len(instance_cosets) - 1) |-> instance_cosets[index + 1]],
     sum |-> [p \in Polys \X Polys |-> [r \in Rows |-> FAdd(p[1][r], p[2][r])]],
     product |->
        [p \in Polys \X Polys |-> [r \in Rows |-> FMul(p[1][r], p[2][r])]],
     scaled |-> [p \in Polys \X F |-> [r \in Rows |-> FMul(p[1][r], p[2])]]]

\* Closures that count their own calls: the value of a subtree is the
\* number of times each of the seven closures ran while folding it.
ClosureNames ==
    {"constant", "fixed_column", "advice_column", "instance_column",
     "sum", "product", "scaled"}
Counts == [ClosureNames -> Nat]
NoCalls == [c \in ClosureNames |-> 0]
OneCall(name) == [c \in ClosureNames |-> IF c = name THEN 1 ELSE 0]
PlusCalls(x, y) == [c \in ClosureNames |-> x[c] + y[c]]

CountingInterp ==
    [constant |-> [scalar \in F |-> OneCall("constant")],
     fixed_column |-> [index \in Nat |-> OneCall("fixed_column")],
     advice_column |-> [index \in Nat |-> OneCall("advice_column")],
     instance_column |-> [index \in Nat |-> OneCall("instance_column")],
     sum |-> [p \in Counts \X Counts |->
                PlusCalls(PlusCalls(p[1], p[2]), OneCall("sum"))],
     product |-> [p \in Counts \X Counts |->
                PlusCalls(PlusCalls(p[1], p[2]), OneCall("product"))],
     scaled |-> [p \in Counts \X F |-> PlusCalls(p[1], OneCall("scaled"))]]

\* Scalars used for constants and scalings, and the leaves of the trees.
Scalars == {FZero, FNeg(FOne)}
Leaves ==
    {ExprConstant(c) : c \in Scalars}
        \cup {ExprFixed(0), ExprAdvice(0), ExprAdvice(1), ExprInstance(0)}

\* Column values on the coset: one vector per query index.
Environment(s) ==
    [fixed |-> << [r \in Rows |-> (s + 2 * r) % P] >>,
     advice |-> << [r \in Rows |-> (s + r + 2) % P],
                   [r \in Rows |-> (2 * s + r * r) % P] >>,
     instance |-> << [r \in Rows |-> (3 * s + 3 * r + 1) % P] >>]
Environments == {Environment(s) : s \in {0, 1}}

\* The values of every query at point r of the coset.
AtRow(cosets, r) == [i \in 1 .. Len(cosets) |-> cosets[i][r]]

\* Largest number of operators applied to build one expression.
MaxOps == 2

NotFolded ==
    [done |-> FALSE, env |-> Environment(0),
     poly |-> [r \in Rows |-> FZero], scalars |-> [r \in Rows |-> FZero],
     calls |-> NoCalls]

ExprIdle ==
    /\ expr = ExprConstant(FZero)
    /\ eop = [op |-> "leaf", a |-> ExprConstant(FZero),
              b |-> ExprConstant(FZero), n |-> 0]
    /\ ev = NotFolded

Building == ~ev.done /\ eop.n < MaxOps

\* -expr
ENeg ==
    /\ Building
    /\ expr' = ExprNeg(expr)
    /\ eop' = [op |-> "neg", a |-> expr, b |-> expr, n |-> eop.n + 1]
    /\ UNCHANGED ev

\* expr + other
EAdd(other) ==
    /\ Building
    /\ expr' = ExprAdd(expr, other)
    /\ eop' = [op |-> "add", a |-> expr, b |-> other, n |-> eop.n + 1]
    /\ UNCHANGED ev

\* expr - other
ESub(other) ==
    /\ Building
    /\ expr' = ExprSub(expr, other)
    /\ eop' = [op |-> "sub", a |-> expr, b |-> other, n |-> eop.n + 1]
    /\ UNCHANGED ev

\* expr * other
EMul(other) ==
    /\ Building
    /\ expr' = ExprMul(expr, other)
    /\ eop' = [op |-> "mul", a |-> expr, b |-> other, n |-> eop.n + 1]
    /\ UNCHANGED ev

\* expr * f for a field element f
EScale(f) ==
    /\ Building
    /\ expr' = ExprScale(expr, f)
    /\ eop' = [op |-> "scale", a |-> expr, b |-> ExprConstant(f),
               n |-> eop.n + 1]
    /\ UNCHANGED ev

\* expr.square()
ESquare ==
    /\ Building
    /\ expr' = square(expr)
    /\ eop' = [op |-> "square", a |-> expr, b |-> expr, n |-> eop.n + 1]
    /\ UNCHANGED ev

\* expr.evaluate(..) with the prover's closures over the cosets of env, with
\* the verifier's closures over the values at each point, and with closures
\* that count their calls.
EEvaluate(env) ==
    /\ ~ev.done
    /\ ev' = [done |-> TRUE,
              env |-> env,
              poly |-> Evaluate(expr,
                          ProverInterp(env.fixed, env.advice, env.instance)),
              scalars |->
                  [r \in Rows |->
                      Evaluate(expr,
                          FieldInterp(AtRow(env.fixed, r), AtRow(env.advice, r),
                                      AtRow(env.instance, r)))],
              calls |-> Evaluate(expr, CountingInterp)]
    /\ UNCHANGED <<expr, eop>>


(***************************************************************************)
(* ConstraintSystem<F>.  The operations are written over a record holding  *)
(* the fields of the struct, so that the queries a closure makes can be    *)
(* threaded one after the other.                                           *)
(***************************************************************************)
\* ConstraintSystem::default
DefaultConstraintSystem ==
    [num_fixed_columns |-> 0,
     num_advice_columns |-> 0,
     num_instance_columns |-> 0,
     gates |-> <<>>,
     fixed_queries |-> <<>>,
     advice_queries |-> <<>>,
     instance_queries |-> <<>>,
     permutations |-> <<>>,
     lookups |-> <<>>]

\* The constraint system held in the state variables.
Self ==
    [num_fixed_columns |-> num_fixed_columns,
     num_advice_columns |-> num_advice_columns,
     num_instance_columns |-> num_instance_columns,
     gates |-> gates,
     fixed_queries |-> fixed_queries,
     advice_queries |-> advice_queries,
     instance_queries |-> instance_queries,
     permutations |-> permutations,
     lookups |-> lookups]

\* Rotation(i32); Rotation::cur and Rotation::next
Rotation(n) == n
RotationCur == Rotation(0)
RotationNext == Rotation(1)
Rotations == {RotationCur, RotationNext}

\* The scan of a query table: the first position holding (column, at).
Matches(queries, column, at) ==
    {i \in 1 .. Len(queries) : queries[i] = <<column, at>>}
FirstMatch(queries, column, at) ==
    CHOOSE i \in Matches(queries, column, at) :
        \A j \in Matches(queries, column, at) : i <= j

\* A slip in the scan: the existing query is never found, every query is
\* appended.
QueryIndexAlwaysAppend(queries, column, at) ==
    [index |-> Len(queries), queries |-> Append(queries, <<column, at>>)]

\* A slip in the scan: only the column is compared, not the rotation.
QueryIndexIgnoreRotation(queries, column, at) ==
    IF \E i \in 1 .. Len(queries) : queries[i][1] = column
    THEN [index |-> (CHOOSE i \in 1 .. Len(queries) : queries[i][1] = column) - 1,
          queries |-> queries]
    ELSE [index |-> Len(queries), queries |-> Append(queries, <<column, at>>)]

\* The body shared by query_fixed_index / query_advice_index /
\* query_instance_index: return the existing query, else make a new one.
QueryIndex(queries, column, at) ==
    IF Matches(queries, column, at) # {}
    THEN [index |-> FirstMatch(queries, column, at) - 1, queries |-> queries]
    ELSE [index |-> Len(queries), queries |-> Append(queries, <<column, at>>)]

\* ConstraintSystem::query_fixed_index
query_fixed_index(cs, column, at) ==
    LET q == QueryIndex(cs.fixed_queries, column, at)
    IN  [cs |-> [cs EXCEPT !.fixed_queries = q.queries], index |-> q.index]

\* ConstraintSystem::query_advice_index
query_advice_index(cs, column, at) ==
    LET q == QueryIndex(cs.advice_queries, column, at)
    IN  [cs |-> [cs EXCEPT !.advice_queries = q.queries], index |-> q.index]

\* ConstraintSystem::query_instance_index
query_instance_index(cs, column, at) ==
    LET q == QueryIndex(cs.instance_queries, column, at)
    IN  [cs |-> [cs EXCEPT !.instance_queries = q.queries], index |-> q.index]

\* ConstraintSystem::query_any_index
query_any_index(cs, column, at) ==
    CASE column.column_type = "Advice" -> query_advice_index(cs, column, at)
      [] column.column_type = "Fixed" -> query_fixed_index(cs, column, at)
      [] column.column_type = "Instance" -> query_instance_index(cs, column, at)

\* One line of the record of query_*_index calls.
Issue(column, at, index) ==
    [kind |-> column.column_type, column |-> column, at |-> at, index |-> index]

(***************************************************************************)
(* VirtualCells: the context a gate or lookup closure queries through.     *)
(* exprs holds the expressions the closure has received so far, log the    *)
(* query_*_index calls made on its behalf.                                 *)
(***************************************************************************)
\* VirtualCells::new
VirtualCellsNew(meta) ==
    [meta |-> meta, queried_selectors |-> <<>>, queried_cells |-> <<>>,
     exprs |-> <<>>, log |-> <<>>]

VirtualCell(column, rotation) == [column |-> column, rotation |-> rotation]

\* VirtualCells::query_selector
query_selector(cells, selector) ==
    LET q == query_fixed_index(cells.meta, selector, RotationCur)
    IN  [cells EXCEPT
            !.queried_selectors = Append(@, selector),
            !.meta = q.cs,
            !.exprs = Append(@, ExprFixed(q.index)),
            !.log = Append(@, Issue(selector, RotationCur, q.index))]

\* VirtualCells::query_fixed
query_fixed(cells, column, at) ==
    LET q == query_fixed_index(cells.meta, column, at)
    IN  [cells EXCEPT
            !.queried_cells = Append(@, VirtualCell(column, at)),
            !.meta = q.cs,
            !.exprs = Append(@, ExprFixed(q.index)),
            !.log = Append(@, Issue(column, at, q.index))]

\* VirtualCells::query_advice
query_advice(cells, column, at) ==
    LET q == query_advice_index(cells.meta, column, at)
    IN  [cells EXCEPT
            !.queried_cells = Append(@, VirtualCell(column, at)),
            !.meta = q.cs,
            !.exprs = Append(@, ExprAdvice(q.index)),
            !.log = Append(@, Issue(column, at, q.index))]

\* VirtualCells::query_instance
query_instance(cells, column, at) ==
    LET q == query_instance_index(cells.meta, column, at)
    IN  [cells EXCEPT
            !.queried_cells = Append(@, VirtualCell(column, at)),
            !.meta = q.cs,
            !.exprs = Append(@, ExprInstance(q.index)),
            !.log = Append(@, Issue(column, at, q.index))]

\* VirtualCells::query_any
query_any(cells, column, at) ==
    LET pushed == [cells EXCEPT
                      !.queried_cells = Append(@, VirtualCell(column, at))]
    IN  CASE column.column_type = "Advice" ->
                LET q == query_advice_index(cells.meta, column, at)
                IN  [pushed EXCEPT
                        !.meta = q.cs,
                        !.exprs = Append(@, ExprAdvice(q.index)),
                        !.log = Append(@, Issue(column, at, q.index))]
          [] column.column_type = "Fixed" ->
                LET q == query_fixed_index(cells.meta, column, at)
                IN  [pushed EXCEPT
                        !.meta = q.cs,
                        !.exprs = Append(@, ExprFixed(q.index)),
                        !.log = Append(@, Issue(column, at, q.index))]
          [] column.column_type = "Instance" ->
                LET q == query_instance_index(cells.meta, column, at)
                IN  [pushed EXCEPT
                        !.meta = q.cs,
                        !.exprs = Append(@, ExprInstance(q.index)),
                        !.log = Append(@, Issue(column, at, q.index))]

\* One call a closure makes on its VirtualCells.
QueryCall(method, column, at) == [method |-> method, column |-> column, at |-> at]

RunQuery(cells, call) ==
    CASE call.method = "query_selector" -> query_selector(cells, call.column)
      [] call.method = "query_fixed" -> query_fixed(cells, call.column, call.at)
      [] call.method = "query_advice" -> query_advice(cells, call.column, call.at)
      [] call.method = "query_instance" ->
            query_instance(cells, call.column, call.at)
      [] call.method = "query_any" -> query_any(cells, call.column, call.at)

RECURSIVE RunQueries(_, _)
\* The queries of a closure, made in order.
RunQueries(cells, calls) ==
    IF calls = <<>>
    THEN cells
    ELSE RunQueries(RunQuery(cells, Head(calls)), Tail(calls))


(***************************************************************************)
(* Gates, permutation arguments, lookup arguments and the degree.          *)
(***************************************************************************)
Range(seq) == {seq[i] : i \in 1 .. Len(seq)}

RECURSIVE SeqMax(_, _)
\* iter().max().unwrap_or(default) over a sequence of numbers
SeqMax(seq, default) ==
    IF seq = <<>>
    THEN default
    ELSE LET rest == SeqMax(Tail(seq), Head(seq))
         IN  Max(Head(seq), rest)

\* permutation::Argument::new
PermutationArgument(columns) == [columns |-> columns]

\* permutation::Argument::required_degree: the grand product over the
\* columns of the argument, one factor per column and one for the product.
PermutationRequiredDegree(p) == Len(p.columns) + 1

\* lookup::Argument::new: the (input, table) pairs, unzipped
LookupArgument(table_map) ==
    [input_expressions |-> [i \in 1 .. Len(table_map) |-> table_map[i][1]],
     table_expressions |-> [i \in 1 .. Len(table_map) |-> table_map[i][2]]]

\* lookup::Argument::required_degree: the degree of the product identity
\* z'(a' + beta)(s' + gamma) - z'(w^-1 X)(input + beta)(table + gamma).
LookupRequiredDegree(l) ==
    LET input_degree ==
            SeqMax([i \in 1 .. Len(l.input_expressions) |->
                        ExpressionDegree(l.input_expressions[i])], 1)
        table_degree ==
            SeqMax([i \in 1 .. Len(l.table_expressions) |->
                        ExpressionDegree(l.table_expressions[i])], 1)
    IN  Max(3, 1 + Max(1, input_degree) + Max(1, table_degree))

RECURSIVE Flatten(_)
\* flat_map over the gates' polynomials
Flatten(seqs) ==
    IF seqs = <<>> THEN <<>> ELSE Head(seqs) \o Flatten(Tail(seqs))

\* A slip in degree: the lookup arguments are left out.
ConstraintSystemDegreeNoLookups(cs) ==
    LET degree0 ==
            SeqMax([i \in 1 .. Len(cs.permutations) |->
                        PermutationRequiredDegree(cs.permutations[i])], 1)
        polys == Flatten([i \in 1 .. Len(cs.gates) |-> cs.gates[i].polys])
    IN  Max(degree0,
            SeqMax([i \in 1 .. Len(polys) |-> ExpressionDegree(polys[i])], 0))

\* ConstraintSystem::degree
ConstraintSystemDegree(cs) ==
    LET degree0 ==
            SeqMax([i \in 1 .. Len(cs.permutations) |->
                        PermutationRequiredDegree(cs.permutations[i])], 1)
        degree1 ==
            Max(degree0,
                SeqMax([i \in 1 .. Len(cs.lookups) |->
                            LookupRequiredDegree(cs.lookups[i])], 1))
        polys == Flatten([i \in 1 .. Len(cs.gates) |-> cs.gates[i].polys])
        degree2 ==
            Max(degree1,
                SeqMax([i \in 1 .. Len(polys) |-> ExpressionDegree(polys[i])], 0))
    IN  degree2

\* Constraint: From<Expression> and From<(&'static str, Expression)>
ConstraintFromExpression(poly) == [name |-> "", poly |-> poly]
ConstraintFromPair(name, poly) == [name |-> name, poly |-> poly]

\* Gate { name, constraint_names, polys, queried_selectors, queried_cells }
Gate(name, constraints, cells) ==
    [name |-> name,
     constraint_names |-> [i \in 1 .. Len(constraints) |-> constraints[i].name],
     polys |-> [i \in 1 .. Len(constraints) |-> constraints[i].poly],
     queried_selectors |-> cells.queried_selectors,
     queried_cells |-> cells.queried_cells]

(***************************************************************************)
(* Record of the calls made, kept beside the constraint system.            *)
(***************************************************************************)
RECURSIVE NoteFirst(_, _)
\* first_seen after the query calls of log: a pair is appended to its kind
\* the first time it is queried.
NoteFirst(seen, log) ==
    IF log = <<>>
    THEN seen
    ELSE LET h == Head(log)
             pair == <<h.column, h.at>>
         IN  NoteFirst(
                IF pair \in Range(seen[h.kind])
                THEN seen
                ELSE [seen EXCEPT ![h.kind] = Append(@, pair)],
                Tail(log))

ConstraintSystemInit ==
    /\ num_fixed_columns = DefaultConstraintSystem.num_fixed_columns
    /\ num_advice_columns = DefaultConstraintSystem.num_advice_columns
    /\ num_instance_columns = DefaultConstraintSystem.num_instance_columns
    /\ gates = DefaultConstraintSystem.gates
    /\ advice_queries = DefaultConstraintSystem.advice_queries
    /\ instance_queries = DefaultConstraintSystem.instance_queries
    /\ fixed_queries = DefaultConstraintSystem.fixed_queries
    /\ permutations = DefaultConstraintSystem.permutations
    /\ lookups = DefaultConstraintSystem.lookups
    /\ allocated = [Advice |-> <<>>, Instance |-> <<>>, Fixed |-> <<>>,
                    Selector |-> <<>>]
    /\ returned = [create_gate |-> <<>>, lookup |-> <<>>, permutation |-> <<>>,
                   queries |-> 0,
                   degree_before |-> ConstraintSystemDegree(DefaultConstraintSystem)]
    /\ issued = {}
    /\ first_seen = [Advice |-> <<>>, Instance |-> <<>>, Fixed |-> <<>>]
    /\ panicked = FALSE

\* The state variables take the fields of cs; the call record takes log.
Store(cs, log) ==
    /\ num_fixed_columns' = cs.num_fixed_columns
    /\ num_advice_columns' = cs.num_advice_columns
    /\ num_instance_columns' = cs.num_instance_columns
    /\ gates' = cs.gates
    /\ advice_queries' = cs.advice_queries
    /\ instance_queries' = cs.instance_queries
    /\ fixed_queries' = cs.fixed_queries
    /\ permutations' = cs.permutations
    /\ lookups' = cs.lookups
    /\ issued' = issued \cup Range(log)
    /\ first_seen' = NoteFirst(first_seen, log)

\* A slip in fixed_column: the count is incremented before it is read.
fixed_column_incremented_first(cs) ==
    [cs |-> [cs EXCEPT !.num_fixed_columns = @ + 1],
     column |-> Column(cs.num_fixed_columns + 1, "Fixed")]

\* ConstraintSystem::fixed_column
fixed_column(cs) ==
    [cs |-> [cs EXCEPT !.num_fixed_columns = @ + 1],
     column |-> Column(cs.num_fixed_columns, "Fixed")]

\* ConstraintSystem::advice_column
advice_column(cs) ==
    [cs |-> [cs EXCEPT !.num_advice_columns = @ + 1],
     column |-> Column(cs.num_advice_columns, "Advice")]

\* ConstraintSystem::instance_column
instance_column(cs) ==
    [cs |-> [cs EXCEPT !.num_instance_columns = @ + 1],
     column |-> Column(cs.num_instance_columns, "Instance")]

\* ConstraintSystem::selector: Selector(self.fixed_column())
selector(cs) == fixed_column(cs)

\* meta.advice_column()
AdviceColumn ==
    /\ ~panicked
    /\ LET r == advice_column(Self)
       IN  /\ Store(r.cs, <<>>)
           /\ allocated' = [allocated EXCEPT !.Advice = Append(@, r.column)]
    /\ UNCHANGED <<returned, panicked>>

\* meta.fixed_column()
FixedColumn ==
    /\ ~panicked
    /\ LET r == fixed_column(Self)
       IN  /\ Store(r.cs, <<>>)
           /\ allocated' = [allocated EXCEPT !.Fixed = Append(@, r.column)]
    /\ UNCHANGED <<returned, panicked>>

\* meta.instance_column()
InstanceColumn ==
    /\ ~panicked
    /\ LET r == instance_column(Self)
       IN  /\ Store(r.cs, <<>>)
           /\ allocated' = [allocated EXCEPT !.Instance = Append(@, r.column)]
    /\ UNCHANGED <<returned, panicked>>

\* meta.selector()
SelectorNew ==
    /\ ~panicked
    /\ LET r == selector(Self)
       IN  /\ Store(r.cs, <<>>)
           /\ allocated' = [allocated EXCEPT !.Selector = Append(@, r.column)]
    /\ UNCHANGED <<returned, panicked>>

(***************************************************************************)
(* The closures handed to create_gate and lookup.  A closure makes a list  *)
(* of queries and builds what it returns from the expressions it got back. *)
(***************************************************************************)
RECURSIVE ProductOf(_)
\* e1 * e2 * ... * en, the constant one for no expression
ProductOf(exprs) ==
    IF exprs = <<>>
    THEN ExprConstant(FOne)
    ELSE IF Len(exprs) = 1
         THEN exprs[1]
         ELSE ExprMul(ProductOf(SubSeq(exprs, 1, Len(exprs) - 1)),
                      exprs[Len(exprs)])

RECURSIVE SumOf(_)
\* e1 + e2 + ... + en, the constant zero for no expression
SumOf(exprs) ==
    IF exprs = <<>>
    THEN ExprConstant(FZero)
    ELSE IF Len(exprs) = 1
         THEN exprs[1]
         ELSE ExprAdd(SumOf(SubSeq(exprs, 1, Len(exprs) - 1)),
                      exprs[Len(exprs)])

\* What a gate closure returns: nothing, or the unnamed product of the
\* queried cells followed, when it queried several, by their named sum.
GateClosureResult(closure, exprs) ==
    IF ~closure.constrain
    THEN <<>>
    ELSE IF Len(exprs) <= 1
         THEN <<ConstraintFromExpression(ProductOf(exprs))>>
         ELSE <<ConstraintFromExpression(ProductOf(exprs)),
                ConstraintFromPair("sum", SumOf(exprs))>>

\* What a lookup closure returns: one (input, table) pair, the input the
\* product of the queried cells, the table their sum.
LookupClosureResult(closure, exprs) ==
    << <<ProductOf(exprs), SumOf(exprs)>> >>

\* A slip in create_gate: the new gate takes the place of the gates stored
\* before.
create_gate_replacing(name, cells, constraints) ==
    IF Len(constraints) = 0
    THEN [panicked |-> TRUE, cs |-> cells.meta]
    ELSE [panicked |-> FALSE,
          cs |-> [cells.meta EXCEPT
                     !.gates = <<Gate(name, constraints, cells)>>]]

\* A slip in create_gate: the assertion is missing, the gate is pushed
\* whatever the closure returned.
create_gate_without_assert(name, cells, constraints) ==
    [panicked |-> FALSE,
     cs |-> [cells.meta EXCEPT
                !.gates = Append(@, Gate(name, constraints, cells))]]

\* ConstraintSystem::create_gate, after the closure has run on cells and
\* returned constraints: assert!(!polys.is_empty()), then push the gate.
create_gate(name, cells, constraints) ==
    IF Len(constraints) = 0
    THEN [panicked |-> TRUE, cs |-> cells.meta]
    ELSE [panicked |-> FALSE,
          cs |-> [cells.meta EXCEPT
                     !.gates = Append(@, Gate(name, constraints, cells))]]

\* meta.create_gate(name, closure): the closure makes its queries and
\* returns its constraints; an empty list trips the assertion after the
\* queries have been interned and before the gate is pushed.
CreateGate(name, closure) ==
    /\ ~panicked
    /\ LET cells == RunQueries(VirtualCellsNew(Self), closure.queries)
           constraints == GateClosureResult(closure, cells.exprs)
           r == create_gate(name, cells, constraints)
       IN  /\ Store(r.cs, cells.log)
           /\ panicked' = r.panicked
           /\ returned' = [returned EXCEPT
                            !.create_gate = Append(@, Len(constraints)),
                            !.queries = @ + Len(cells.log),
                            !.degree_before = ConstraintSystemDegree(Self)]
    /\ UNCHANGED allocated

\* meta.lookup(closure)
Lookup(closure) ==
    /\ ~panicked
    /\ LET cells == RunQueries(VirtualCellsNew(Self), closure.queries)
           table_map == LookupClosureResult(closure, cells.exprs)
           index == Len(cells.meta.lookups)
       IN  /\ Store([cells.meta EXCEPT
                        !.lookups = Append(@, LookupArgument(table_map))],
                    cells.log)
           /\ returned' = [returned EXCEPT
                            !.lookup = Append(@, index),
                            !.queries = @ + Len(cells.log),
                            !.degree_before = ConstraintSystemDegree(Self)]
    /\ UNCHANGED <<allocated, panicked>>

RECURSIVE PermutationQueries(_, _, _)
\* The loop of permutation(): query_any_index(column, Rotation::cur()) for
\* each column in turn.
PermutationQueries(cs, columns, log) ==
    IF columns = <<>>
    THEN [cs |-> cs, log |-> log]
    ELSE LET q == query_any_index(cs, Head(columns), RotationCur)
         IN  PermutationQueries(q.cs, Tail(columns),
                Append(log, Issue(Head(columns), RotationCur, q.index)))

\* A slip in permutation: a column list registered before is given its
\* earlier argument again.
PermutationNewOncePerList(columns) ==
    /\ ~panicked
    /\ LET earlier == {i \in 1 .. Len(permutations) :
                        permutations[i] = PermutationArgument(columns)}
           index == IF earlier = {}
                    THEN Len(permutations)
                    ELSE (CHOOSE i \in earlier : TRUE) - 1
           q == PermutationQueries(Self, columns, <<>>)
       IN  /\ Store([q.cs EXCEPT
                        !.permutations =
                            IF earlier = {}
                            THEN Append(@, PermutationArgument(columns))
                            ELSE @],
                    q.log)
           /\ returned' = [returned EXCEPT
                            !.permutation =
                                Append(@, [index |-> index, mapping |-> columns]),
                            !.queries = @ + Len(q.log),
                            !.degree_before = ConstraintSystemDegree(Self)]
    /\ UNCHANGED <<allocated, panicked>>

\* meta.permutation(columns)
PermutationNew(columns) ==
    /\ ~panicked
    /\ LET index == Len(permutations)
           q == PermutationQueries(Self, columns, <<>>)
       IN  /\ Store([q.cs EXCEPT
                        !.permutations = Append(@, PermutationArgument(columns))],
                    q.log)
           /\ returned' = [returned EXCEPT
                            !.permutation =
                                Append(@, [index |-> index, mapping |-> columns]),
                            !.queries = @ + Len(q.log),
                            !.degree_before = ConstraintSystemDegree(Self)]
    /\ UNCHANGED <<allocated, panicked>>


(***************************************************************************)
(* Inputs of the configuration calls and the bounds of the exploration.    *)
(***************************************************************************)
\* Columns allocated in one configuration, and calls to create_gate, lookup
\* and permutation made in it.
MaxColumns == 1
MaxCalls == 2
\* Columns allocated when nothing but allocation is explored.
MaxAllocations == 5

NumColumns == num_advice_columns + num_fixed_columns + num_instance_columns
NumCalls == Len(returned.create_gate) + Len(lookups) + Len(permutations)

\* The lists of at most two elements of S.
UpToTwo(S) == {<<>>} \cup {<<a>> : a \in S} \cup {<<a, b>> : a \in S, b \in S}

\* The calls a gate closure can make on the columns handed out so far:
\* advice at the current and the next row, the others at the current row.
TypedCalls ==
    {QueryCall("query_advice", c, at) :
        c \in Range(allocated.Advice), at \in Rotations}
    \cup {QueryCall("query_fixed", c, RotationCur) : c \in Range(allocated.Fixed)}
    \cup {QueryCall("query_instance", c, RotationCur) :
            c \in Range(allocated.Instance)}
    \cup {QueryCall("query_selector", c, RotationCur) :
            c \in Range(allocated.Selector)}

\* Column<Any> of the columns handed out so far (selectors keep theirs).
AnyColumns ==
    Range(allocated.Advice) \cup Range(allocated.Fixed)
        \cup Range(allocated.Instance)

\* The calls a lookup closure makes: query_any on any column.
AnyCalls ==
    {QueryCall("query_any", c, at) :
        c \in Range(allocated.Advice), at \in Rotations}
    \cup {QueryCall("query_any", c, RotationCur) :
            c \in Range(allocated.Fixed) \cup Range(allocated.Instance)}

\* A gate closure queries up to two cells, and constrains them or returns
\* no constraint.
GateClosures ==
    {[queries |-> q, constrain |-> b] : q \in UpToTwo(TypedCalls), b \in BOOLEAN}

\* A lookup closure queries up to two cells.
LookupClosures == {[queries |-> q] : q \in UpToTwo(AnyCalls)}

ConfigureNext ==
    \/ (NumColumns < MaxColumns /\ AdviceColumn)
    \/ (NumColumns < MaxColumns /\ FixedColumn)
    \/ (NumColumns < MaxColumns /\ InstanceColumn)
    \/ (NumColumns < MaxColumns /\ SelectorNew)
    \/ (NumCalls < MaxCalls /\ \E c \in GateClosures : CreateGate("gate", c))
    \/ (NumCalls < MaxCalls /\ \E c \in LookupClosures : Lookup(c))
    \/ (NumCalls < MaxCalls /\ \E cols \in UpToTwo(AnyColumns) : PermutationNew(cols))

AllocateNext ==
    \/ (NumColumns < MaxAllocations /\ AdviceColumn)
    \/ (NumColumns < MaxAllocations /\ FixedColumn)
    \/ (NumColumns < MaxAllocations /\ InstanceColumn)
    \/ (NumColumns < MaxAllocations /\ SelectorNew)

(***************************************************************************)
(* Regions, cells and region shapes.  A circuit is synthesized on the      *)
(* columns of one configuration: two advice columns, one fixed column, one *)
(* selector and one permutation over the first advice column.              *)
(***************************************************************************)
AdviceA == Column(0, "Advice")
AdviceB == Column(1, "Advice")
FixedA == Column(0, "Fixed")
\* Selector(Column<Fixed>): the selector's own fixed column.
SelectorA == Column(1, "Fixed")
ShapeColumns == {AdviceA, AdviceB, FixedA}
\* What meta.permutation(&[a.into()]) returned.
PermutationA == [index |-> 0, mapping |-> <<AdviceA>>]

NoColumn == [index |-> 0, column_type |-> "None"]

\* Result<_, Error>
Ok == [ok |-> TRUE, error |-> "none"]
Err(e) == [ok |-> FALSE, error |-> e]

\* struct Cell
Cell(index, row_offset, column) ==
    [region_index |-> index, row_offset |-> row_offset, column |-> column]

NoCell == Cell(0, 0, NoColumn)

\* The largest and the smallest element of a non-empty set of numbers.
SetMax(S) == CHOOSE m \in S : \A x \in S : x <= m

SetMin(S) == CHOOSE x \in S : \A y \in S : x <= y

\* RegionShape::new(region_index)
RegionShapeNew(index) == [region_index |-> index, columns |-> {}, rows |-> {}]

\* A region shape that uses offset (or a cell at it) in column.
ShapeTouch(shape, column, offset) ==
    [shape EXCEPT !.columns = @ \cup {column}, !.rows = @ \cup {offset}]

\* The row span of a shape: maximum offset - minimum offset + 1.
row_count(shape) ==
    IF shape.rows = {} THEN 0 ELSE SetMax(shape.rows) - SetMin(shape.rows) + 1

\* The advice area of a shape: distinct advice columns times row span.
AdviceArea(shape) ==
    Cardinality({c \in shape.columns : c.column_type = "Advice"})
        * row_count(shape)

\* The cells (column, absolute row) a shape covers when its offset 0 is put
\* at row start.
Occupied(shape, start) ==
    IF shape.rows = {}
    THEN {}
    ELSE {<<c, start + o>> :
            c \in shape.columns, o \in SetMin(shape.rows) .. SetMax(shape.rows)}

(***************************************************************************)
(* strategy::slot_in_biggest_advice_first (src/circuit/floor_planner/v1.rs *)
(* line 72 calls it): regions in order of descending advice area, each     *)
(* placed first-fit, the starts returned in the order of the region        *)
(* indices.                                                                *)
(***************************************************************************)
RECURSIVE SumRows(_)
SumRows(shapes) ==
    IF shapes = <<>>
    THEN 0
    ELSE (IF Head(shapes).rows = {} THEN 0 ELSE SetMax(Head(shapes).rows) + 1)
            + SumRows(Tail(shapes))

\* Position of the shape to place first: greatest advice area, the earlier
\* one of equal areas.
Biggest(shapes) ==
    CHOOSE i \in 1 .. Len(shapes) :
        \A j \in 1 .. Len(shapes) :
            \/ AdviceArea(shapes[i]) > AdviceArea(shapes[j])
            \/ AdviceArea(shapes[i]) = AdviceArea(shapes[j]) /\ i <= j

Without(s, i) == SubSeq(s, 1, i - 1) \o SubSeq(s, i + 1, Len(s))

RECURSIVE SortByAdviceArea(_)
SortByAdviceArea(shapes) ==
    IF shapes = <<>>
    THEN <<>>
    ELSE LET i == Biggest(shapes)
         IN  <<shapes[i]>> \o SortByAdviceArea(Without(shapes, i))

\* The smallest start row at which no cell of the shape is occupied.
first_fit_region(occupied, shape, limit) ==
    SetMin({s \in 0 .. limit : Occupied(shape, s) \cap occupied = {}})

RECURSIVE slot_in(_, _, _)
slot_in(sorted, occupied, limit) ==
    IF sorted = <<>>
    THEN <<>>
    ELSE LET shape == Head(sorted)
             start == first_fit_region(occupied, shape, limit)
         IN  <<[region_index |-> shape.region_index, start |-> start]>>
                \o slot_in(Tail(sorted), occupied \cup Occupied(shape, start),
                           limit)

\* The starts in the order of the region indices.
starts_by_region_index(placed) ==
    [i \in 1 .. Len(placed) |->
        (CHOOSE p \in Range(placed) : p.region_index = i - 1).start]

slot_in_biggest_advice_first(shapes) ==
    starts_by_region_index(
        slot_in(SortByAdviceArea(shapes), {}, SumRows(shapes)))

(***************************************************************************)
(* Region closures.  A closure makes a list of calls on the Region it is   *)
(* handed, returns the first error a call returns (the ? operator), and    *)
(* else its own result.                                                    *)
(***************************************************************************)
\* Value producers: the `to` argument of assign_advice and assign_fixed.
ToOk == [ok |-> TRUE, error |-> "none", value |-> FOne]
ToErr == [ok |-> FALSE, error |-> "SynthesisError", value |-> FZero]

EnableSelector(sel, offset) ==
    [op |-> "enable_selector", column |-> sel, offset |-> offset,
     to |-> ToOk, left |-> 0, right |-> 0]

AssignAdvice(column, offset, to) ==
    [op |-> "assign_advice", column |-> column, offset |-> offset,
     to |-> to, left |-> 0, right |-> 0]

AssignFixed(column, offset, to) ==
    [op |-> "assign_fixed", column |-> column, offset |-> offset,
     to |-> to, left |-> 0, right |-> 0]

\* region.constrain_equal(&permutation, left, right) on the cells that the
\* closure's calls number left and right returned.
ConstrainEqual(left, right) ==
    [op |-> "constrain_equal", column |-> NoColumn, offset |-> 0,
     to |-> ToOk, left |-> left, right |-> right]

Closure(ops, returns) == [ops |-> ops, returns |-> returns]

\* One call made on a Region and what came of it: the number of times the
\* value producer ran, the position in the sink's log of the call it was
\* turned into (0 for none), its result and the cell it returned.
RegionCall(in_pass, index, o, to_calls, at, res, cell) ==
    [pass |-> in_pass, region |-> index, op |-> o.op, column |-> o.column,
     offset |-> o.offset, to_calls |-> to_calls, at |-> at, result |-> res,
     cell |-> cell]

(***************************************************************************)
(* RegionShape as a RegionLayouter: it records the columns and offsets     *)
(* used, runs no value producer and reaches no sink.                       *)
(***************************************************************************)
ShapeCall(shape, o, done) ==
    CASE o.op = "enable_selector" ->
            [shape |-> ShapeTouch(shape, o.column, o.offset),
             call |-> RegionCall("measurement", shape.region_index, o, 0, 0,
                                 Ok, NoCell)]
      [] o.op \in {"assign_advice", "assign_fixed"} ->
            [shape |-> ShapeTouch(shape, o.column, o.offset),
             call |-> RegionCall("measurement", shape.region_index, o, 0, 0,
                                 Ok, Cell(shape.region_index, o.offset,
                                          o.column))]
      [] o.op = "constrain_equal" ->
            LET l == done[o.left].cell
                r == done[o.right].cell
            IN  [shape |-> ShapeTouch(ShapeTouch(shape, l.column, l.row_offset),
                                      r.column, r.row_offset),
                 call |-> RegionCall("measurement", shape.region_index, o, 0,
                                     0, Ok, NoCell)]

RECURSIVE RunShape(_, _, _)
RunShape(ops, shape, done) ==
    IF ops = <<>>
    THEN [shape |-> shape, calls |-> done]
    ELSE LET r == ShapeCall(shape, Head(ops), done)
         IN  RunShape(Tail(ops), r.shape, Append(done, r.call))

(***************************************************************************)
(* WitnessCollection, the prover's Assignment sink                         *)
(* (src/plonk/prover.rs:116-213).                                          *)
(***************************************************************************)
\* Rows of each advice polynomial of the witness.
WitnessRows == 3

NumAdvice == Cardinality({c \in ShapeColumns : c.column_type = "Advice"})

\* vec![domain.empty_lagrange_assigned(); meta.num_advice_columns]
WitnessNew == [c \in 0 .. (NumAdvice - 1) |-> [r \in 0 .. (WitnessRows - 1) |-> FZero]]

\* One call received by the sink.
SinkCall(call, column, row) ==
    [call |-> call, column |-> column, row |-> row,
     right_column |-> NoColumn, right_row |-> 0]

SinkCopy(left_column, left_row, right_column, right_row) ==
    [call |-> "copy", column |-> left_column, row |-> left_row,
     right_column |-> right_column, right_row |-> right_row]

\* A producer that is run a second time to store the value.
WitnessAssignAdviceTwice(adv, column, row, to) ==
    IF ~to.ok
    THEN [result |-> Err(to.error), advice |-> adv, to_calls |-> 1]
    ELSE IF column.index \notin DOMAIN adv
            \/ row \notin DOMAIN adv[column.index]
         THEN [result |-> Err("BoundsFailure"), advice |-> adv, to_calls |-> 1]
         ELSE [result |-> Ok,
               advice |-> [adv EXCEPT ![column.index][row] = to.value],
               to_calls |-> 2]

\* assign_advice that looks the place up before it runs the producer.
WitnessAssignAdviceBoundsFirst(adv, column, row, to) ==
    IF column.index \notin DOMAIN adv \/ row \notin DOMAIN adv[column.index]
    THEN [result |-> Err("BoundsFailure"), advice |-> adv, to_calls |-> 0]
    ELSE IF ~to.ok
         THEN [result |-> Err(to.error), advice |-> adv, to_calls |-> 1]
         ELSE [result |-> Ok,
               advice |-> [adv EXCEPT ![column.index][row] = to.value],
               to_calls |-> 1]

\* assign_advice: `*place = to()?.into()` runs the producer, then looks the
\* place up.
WitnessAssignAdvice(adv, column, row, to) ==
    IF ~to.ok
    THEN [result |-> Err(to.error), advice |-> adv, to_calls |-> 1]
    ELSE IF column.index \notin DOMAIN adv
            \/ row \notin DOMAIN adv[column.index]
         THEN [result |-> Err("BoundsFailure"), advice |-> adv, to_calls |-> 1]
         ELSE [result |-> Ok,
               advice |-> [adv EXCEPT ![column.index][row] = to.value],
               to_calls |-> 1]

\* assign_fixed that runs the producer and stores the value as assign_advice
\* does.
WitnessAssignFixedStores(adv, column, row, to) ==
    IF ~to.ok
    THEN [result |-> Err(to.error), advice |-> adv, to_calls |-> 1]
    ELSE IF column.index \notin DOMAIN adv
            \/ row \notin DOMAIN adv[column.index]
         THEN [result |-> Err("BoundsFailure"), advice |-> adv, to_calls |-> 1]
         ELSE [result |-> Ok,
               advice |-> [adv EXCEPT ![column.index][row] = to.value],
               to_calls |-> 1]

\* assign_fixed: "We only care about advice columns here".
WitnessAssignFixed(adv, column, row, to) ==
    [result |-> Ok, advice |-> adv, to_calls |-> 0]

\* enable_selector: "We only care about advice columns here".
WitnessEnableSelector(sel, row) == Ok

\* copy: "We only care about advice columns here".
WitnessCopy(permutation, left_column, left_row, right_column, right_row) == Ok

(***************************************************************************)
(* V1Region as a RegionLayouter (src/circuit/floor_planner/v1.rs:228-299). *)
(* The state st holds the sink's log, the witness, the result of the last  *)
(* call and whether a panic was raised.                                    *)
(***************************************************************************)
\* plan.regions[*region_index] is within bounds.
Planned(index) == index < Len(plan)

\* The row of the Cell instead of the row in the circuit.
AbsoluteRowRelative(index, offset) == offset

\* *self.plan.regions[*region_index] + offset
AbsoluteRow(index, offset) == plan[index + 1] + offset

\* Cell { region_index, row_offset: offset, column: column.into() }
V1Cell(index, offset, column) == Cell(index, offset, column)

V1Panic(st, index, o) ==
    [st |-> [st EXCEPT !.panicked = TRUE],
     call |-> RegionCall("assignment", index, o, 0, 0, Err("panic"), NoCell)]

\* constrain_equal that places both cells in the region it is called in.
constrain_equal_in_own_region(st, index, o, left, right, copied) ==
    LET left_row == AbsoluteRow(index, left.row_offset)
        right_row == AbsoluteRow(index, right.row_offset)
        log == Append(st.sink,
                      SinkCopy(left.column, left_row, right.column, right_row))
    IN  [st |-> [st EXCEPT !.sink = log, !.result = copied],
         call |-> RegionCall("assignment", index, o, 0, Len(log), copied,
                             NoCell)]

\* V1Region::constrain_equal on the V1Region of region index, where copied
\* is what the sink's copy returns: self.plan.cs.copy(permutation,
\* left.column, *self.plan.regions[*left.region_index] + left.row_offset,
\* right.column, *self.plan.regions[*right.region_index]
\* + right.row_offset)?; Ok(())
constrain_equal(st, index, o, left, right, copied) ==
    LET left_row == AbsoluteRow(left.region_index, left.row_offset)
        right_row == AbsoluteRow(right.region_index, right.row_offset)
        log == Append(st.sink,
                      SinkCopy(left.column, left_row, right.column, right_row))
    IN  [st |-> [st EXCEPT !.sink = log, !.result = copied],
         call |-> RegionCall("assignment", index, o, 0, Len(log), copied,
                             NoCell)]

V1RegionCall(st, index, o, done) ==
    CASE o.op = "enable_selector" ->
            IF ~Planned(index)
            THEN V1Panic(st, index, o)
            ELSE LET row == AbsoluteRow(index, o.offset)
                     res == WitnessEnableSelector(o.column, row)
                     log == Append(st.sink, SinkCall(o.op, o.column, row))
                 IN  [st |-> [st EXCEPT !.sink = log, !.result = res],
                      call |-> RegionCall("assignment", index, o, 0, Len(log),
                                          res, NoCell)]
      [] o.op = "assign_advice" ->
            IF ~Planned(index)
            THEN V1Panic(st, index, o)
            ELSE LET row == AbsoluteRow(index, o.offset)
                     w == WitnessAssignAdvice(st.advice, o.column, row, o.to)
                     log == Append(st.sink, SinkCall(o.op, o.column, row))
                 IN  [st |-> [st EXCEPT !.sink = log, !.advice = w.advice,
                                        !.result = w.result],
                      call |-> RegionCall("assignment", index, o, w.to_calls,
                                  Len(log), w.result,
                                  IF w.result.ok
                                  THEN V1Cell(index, o.offset, o.column)
                                  ELSE NoCell)]
      [] o.op = "assign_fixed" ->
            IF ~Planned(index)
            THEN V1Panic(st, index, o)
            ELSE LET row == AbsoluteRow(index, o.offset)
                     w == WitnessAssignFixed(st.advice, o.column, row, o.to)
                     log == Append(st.sink, SinkCall(o.op, o.column, row))
                 IN  [st |-> [st EXCEPT !.sink = log, !.advice = w.advice,
                                        !.result = w.result],
                      call |-> RegionCall("assignment", index, o, w.to_calls,
                                  Len(log), w.result,
                                  IF w.result.ok
                                  THEN V1Cell(index, o.offset, o.column)
                                  ELSE NoCell)]
      [] o.op = "constrain_equal" ->
            LET l == done[o.left].cell
                r == done[o.right].cell
            IN  IF ~Planned(l.region_index) \/ ~Planned(r.region_index)
                THEN V1Panic(st, index, o)
                ELSE constrain_equal(st, index, o, l, r,
                        WitnessCopy(PermutationA, l.column,
                                    AbsoluteRow(l.region_index, l.row_offset),
                                    r.column,
                                    AbsoluteRow(r.region_index, r.row_offset)))

RECURSIVE RunV1Region(_, _, _, _)
RunV1Region(ops, index, st, done) ==
    IF ops = <<>> \/ ~st.result.ok \/ st.panicked
    THEN [st |-> st, calls |-> done]
    ELSE LET r == V1RegionCall(st, index, Head(ops), done)
         IN  RunV1Region(Tail(ops), index, r.st, Append(done, r.call))

(***************************************************************************)
(* Layouters: the V1Pass of the current pass, and the NamespacedLayouter   *)
(* values that Layouter::namespace returns (src/circuit.rs:195-313,        *)
(* src/circuit/floor_planner/v1.rs:105-139).  The state ls holds the       *)
(* counts of the calls V1Pass received, the sink's log and whether a panic *)
(* was raised.                                                             *)
(***************************************************************************)
V1Pass == [layouter |-> "V1Pass", inner |-> "none"]

NamespacedLayouter(l) == [layouter |-> "NamespacedLayouter", inner |-> l]

RECURSIVE get_root(_)
\* NamespacedLayouter: self.0.get_root(); V1Pass: self
get_root(l) ==
    IF l.layouter = "NamespacedLayouter" THEN get_root(l.inner) ELSE l

RECURSIVE assign_region_on(_)
\* The layouter whose assign_region runs the closure:
\* NamespacedLayouter forwards to self.0.assign_region.
assign_region_on(l) ==
    IF l.layouter = "NamespacedLayouter" THEN assign_region_on(l.inner) ELSE l

\* The layouter the circuit holds: the innermost live namespace, else the
\* V1Pass it was handed.
Layouter == IF guards = <<>> THEN V1Pass ELSE guards[Len(guards)]

\* A push_namespace that reaches the sink in the measurement pass too.
push_namespace_in_every_pass(l, ls) ==
    IF l.layouter = "NamespacedLayouter"
    THEN [ls EXCEPT !.panicked = TRUE]
    ELSE [ls EXCEPT
            !.root.pushes = @ + 1,
            !.sink = Append(@, SinkCall("push_namespace", NoColumn, 0))]

\* l.push_namespace(name_fn)
push_namespace(l, ls) ==
    IF l.layouter = "NamespacedLayouter"
    THEN [ls EXCEPT !.panicked = TRUE]
    ELSE [ls EXCEPT
            !.root.pushes = @ + 1,
            !.sink = IF pass = "assignment"
                     THEN Append(@, SinkCall("push_namespace", NoColumn, 0))
                     ELSE @]

\* l.pop_namespace(gadget_name)
pop_namespace(l, ls) ==
    IF l.layouter = "NamespacedLayouter"
    THEN [ls EXCEPT !.panicked = TRUE]
    ELSE [ls EXCEPT
            !.root.pops = @ + 1,
            !.sink = IF pass = "assignment"
                     THEN Append(@, SinkCall("pop_namespace", NoColumn, 0))
                     ELSE @]

\* A namespace() that pushes on the layouter it is called on.
namespace_on_self(l, ls) ==
    [ls |-> push_namespace(l, ls), guard |-> NamespacedLayouter(get_root(l))]

\* Layouter::namespace: self.get_root().push_namespace(name_fn), then
\* NamespacedLayouter(self.get_root(), PhantomData)
namespace(l, ls) ==
    [ls |-> push_namespace(get_root(l), ls),
     guard |-> NamespacedLayouter(get_root(l))]

\* A drop that leaves the namespace open.
drop_without_pop(guard, ls) == ls

\* Drop for NamespacedLayouter: self.get_root().pop_namespace(gadget_name)
drop(guard, ls) == pop_namespace(get_root(guard), ls)

RECURSIVE drop_all(_, _)
\* The live namespaces going out of scope, innermost first.
drop_all(gs, ls) ==
    IF gs = <<>>
    THEN ls
    ELSE drop_all(SubSeq(gs, 1, Len(gs) - 1), drop(gs[Len(gs)], ls))

LayouterState == [root |-> root, sink |-> sink, panicked |-> FALSE]

(***************************************************************************)
(* V1::synthesize (src/circuit/floor_planner/v1.rs:55-83) and the calls    *)
(* that Circuit::synthesize makes on the layouter of each pass.  The       *)
(* measurement pass fixes the calls of the circuit; the assignment pass    *)
(* makes the same calls again.                                             *)
(***************************************************************************)
Panicked == [ok |-> FALSE, error |-> "panic"]
Pending == [ok |-> FALSE, error |-> "pending"]

NotReplanned == [done |-> FALSE, regions |-> <<>>]

V1Init ==
    /\ script = <<>>
    /\ pass = "measurement"
    /\ ran = <<"measurement">>
    /\ pc = 0
    /\ guards = <<>>
    /\ root = [pushes |-> 0, pops |-> 0]
    /\ measure = <<>>
    /\ plan = <<>>
    /\ replanned = NotReplanned
    /\ region_index = 0
    /\ sink = <<>>
    /\ advice = WitnessNew
    /\ given = [measurement |-> <<>>, assignment |-> <<>>]
    /\ region_calls = <<>>
    /\ result = Pending

V1Idle == V1Init

NamespaceCall == [call |-> "namespace", closure |-> Closure(<<>>, Ok),
                  on_err |-> "return"]
DropCall == [call |-> "drop", closure |-> Closure(<<>>, Ok),
             on_err |-> "return"]
PushCall == [call |-> "push_namespace", closure |-> Closure(<<>>, Ok),
             on_err |-> "return"]
PopCall == [call |-> "pop_namespace", closure |-> Closure(<<>>, Ok),
            on_err |-> "return"]
AssignRegionCall(closure, on_err) ==
    [call |-> "assign_region", closure |-> closure, on_err |-> on_err]

\* Calls of the circuit, assign_region calls among them, namespaces open.
MaxScript == 4
MaxRegions == 2
MaxDepth == 2

RegionsIn(s) == Cardinality({i \in 1 .. Len(s) : s[i].call = "assign_region"})

\* The circuit makes call c next.
Calling(c) ==
    /\ \/ /\ pass = "measurement"
          /\ Len(script) < MaxScript
          /\ c.call = "assign_region" => RegionsIn(script) < MaxRegions
          /\ c.call = "namespace" => Len(guards) < MaxDepth
          /\ script' = Append(script, c)
       \/ /\ pass = "assignment"
          /\ pc < Len(script)
          /\ script[pc + 1] = c
          /\ script' = script
    /\ pc' = pc + 1

\* The pass V1::synthesize moves to however the measurement pass ended.
after_measurement_always_placement(res) == "placement"

\* The ? on the measurement pass: on an error synthesize returns it.
after_measurement(res) == IF res.ok THEN "placement" ELSE "returned"

\* Circuit::synthesize returns res to V1::synthesize: its live namespaces
\* go out of scope, and V1::synthesize goes on or returns.
CircuitReturns(res, ls) ==
    LET left == drop_all(guards, ls)
    IN  /\ guards' = <<>>
        /\ root' = left.root
        /\ sink' = left.sink
        /\ IF left.panicked
           THEN pass' = "panicked" /\ result' = Panicked
           ELSE IF pass = "measurement"
                THEN /\ pass' = after_measurement(res)
                     /\ result' = IF res.ok THEN result ELSE res
                ELSE pass' = "returned" /\ result' = res

\* A panic unwinds through the circuit and V1::synthesize.
Panics(ls) ==
    LET left == drop_all(guards, ls)
    IN  /\ guards' = <<>>
        /\ root' = left.root
        /\ sink' = left.sink
        /\ pass' = "panicked"
        /\ result' = Panicked

\* let ns = layouter.namespace(|| name)
Namespace ==
    /\ Calling(NamespaceCall)
    /\ LET n == namespace(Layouter, LayouterState)
       IN  IF n.ls.panicked
           THEN Panics(n.ls)
           ELSE /\ guards' = Append(guards, n.guard)
                /\ root' = n.ls.root
                /\ sink' = n.ls.sink
                /\ UNCHANGED <<pass, result>>
    /\ UNCHANGED <<measure, plan, replanned, region_index, advice, given,
                   region_calls>>

\* The innermost namespace goes out of scope.
DropGuard ==
    /\ guards # <<>>
    /\ Calling(DropCall)
    /\ LET left == drop(guards[Len(guards)], LayouterState)
       IN  IF left.panicked
           THEN Panics(left)
           ELSE /\ guards' = SubSeq(guards, 1, Len(guards) - 1)
                /\ root' = left.root
                /\ sink' = left.sink
                /\ UNCHANGED <<pass, result>>
    /\ UNCHANGED <<measure, plan, replanned, region_index, advice, given,
                   region_calls>>

\* ns.push_namespace(|| name) on a NamespacedLayouter
PushNamespace ==
    /\ guards # <<>>
    /\ Calling(PushCall)
    /\ LET pushed == push_namespace(Layouter, LayouterState)
       IN  IF pushed.panicked
           THEN Panics(pushed)
           ELSE /\ root' = pushed.root
                /\ sink' = pushed.sink
                /\ UNCHANGED <<guards, pass, result>>
    /\ UNCHANGED <<measure, plan, replanned, region_index, advice, given,
                   region_calls>>

\* ns.pop_namespace(None) on a NamespacedLayouter
PopNamespace ==
    /\ guards # <<>>
    /\ Calling(PopCall)
    /\ LET popped == pop_namespace(Layouter, LayouterState)
       IN  IF popped.panicked
           THEN Panics(popped)
           ELSE /\ root' = popped.root
                /\ sink' = popped.sink
                /\ UNCHANGED <<guards, pass, result>>
    /\ UNCHANGED <<measure, plan, replanned, region_index, advice, given,
                   region_calls>>

\* assign_region returned res to the circuit, which returns an error at
\* once unless it handles it.
AssignRegionReturns(c, res, ls) ==
    IF ls.panicked
    THEN Panics(ls)
    ELSE IF ~res.ok /\ c.on_err = "return"
         THEN CircuitReturns(res, ls)
         ELSE /\ root' = ls.root
              /\ sink' = ls.sink
              /\ UNCHANGED <<guards, pass, result>>

\* A measurement that numbers a region one past the shapes it holds.
MeasurementRegionIndexNext(regions) == Len(regions) + 1

\* MeasurementPass::assign_region: let region_index = self.regions.len()
MeasurementRegionIndex(regions) == Len(regions)

\* MeasurementPass::assign_region (v1.rs:152-167)
MeasureRegion(c) ==
    LET index == MeasurementRegionIndex(measure)
        run == RunShape(c.closure.ops, RegionShapeNew(index), <<>>)
        res == c.closure.returns
    IN  /\ measure' = IF res.ok THEN Append(measure, run.shape) ELSE measure
        /\ given' = [given EXCEPT !.measurement = Append(@, index)]
        /\ region_calls' = region_calls \o run.calls
        /\ AssignRegionReturns(c, res, LayouterState)
        /\ UNCHANGED <<plan, replanned, region_index, advice>>

\* An assign_region that leaves the region open.
exit_region_never(log) == log

\* self.plan.cs.exit_region()
exit_region(log) == Append(log, SinkCall("exit_region", NoColumn, 0))

\* AssignmentPass::assign_region (v1.rs:186-205)
AssignRegionV1(c) ==
    LET index == region_index
        entered == Append(sink, SinkCall("enter_region", NoColumn, 0))
        run == RunV1Region(c.closure.ops, index,
                    [sink |-> entered, advice |-> advice, result |-> Ok,
                     panicked |-> FALSE], <<>>)
        res == IF run.st.result.ok THEN c.closure.returns ELSE run.st.result
        log == IF res.ok /\ ~run.st.panicked
               THEN exit_region(run.st.sink)
               ELSE run.st.sink
    IN  /\ region_index' = region_index + 1
        /\ advice' = run.st.advice
        /\ given' = [given EXCEPT !.assignment = Append(@, index)]
        /\ region_calls' = region_calls \o run.calls
        /\ AssignRegionReturns(c, res,
                [root |-> root, sink |-> log, panicked |-> run.st.panicked])
        /\ UNCHANGED <<measure, plan, replanned>>

\* layouter.assign_region(|| name, closure) on the layouter the circuit
\* holds; V1Pass::assign_region dispatches on the pass.
AssignRegion(c) ==
    /\ c.call = "assign_region"
    /\ Calling(c)
    /\ assign_region_on(Layouter) = V1Pass
    /\ IF pass = "measurement" THEN MeasureRegion(c) ELSE AssignRegionV1(c)

\* Circuit::synthesize returns Ok(()).
CircuitReturnsOk ==
    /\ \/ pass = "measurement"
       \/ pass = "assignment" /\ pc = Len(script)
    /\ CircuitReturns(Ok, LayouterState)
    /\ pc' = IF pass = "measurement" THEN 0 ELSE pc
    /\ UNCHANGED <<script, measure, plan, replanned, region_index, advice,
                   given, region_calls>>

\* An AssignmentPass made on a plan that holds no start rows.
PlaceWithoutStarts(starts) ==
    /\ pass = "placement"
    /\ plan' = <<>>
    /\ region_index' = 0
    /\ pass' = "assignment"
    /\ UNCHANGED <<script, pc, guards, root, measure, replanned, sink, advice,
                   given, region_calls, result>>

\* V1::synthesize stores the start rows and makes the AssignmentPass.
PlaceWith(starts) ==
    /\ pass = "placement"
    /\ plan' = starts
    /\ region_index' = 0
    /\ pass' = "assignment"
    /\ UNCHANGED <<script, pc, guards, root, measure, replanned, sink, advice,
                   given, region_calls, result>>

\* A plan that starts every region at row 0.
PlaceAtRowZero == PlaceWith([i \in 1 .. Len(measure) |-> 0])

\* A plan that lists the start rows in the order the regions were placed.
PlaceInPlacementOrder ==
    PlaceWith(LET placed == slot_in(SortByAdviceArea(measure), {},
                                    SumRows(measure))
              IN  [i \in 1 .. Len(placed) |-> placed[i].start])

\* plan.regions = strategy::slot_in_biggest_advice_first(measure.regions),
\* then AssignmentPass::new(&mut plan)
Place == PlaceWith(slot_in_biggest_advice_first(measure))

\* The placement run once more on the same shapes.
PlaceAgain ==
    /\ pass = "assignment"
    /\ ~replanned.done
    /\ replanned' = [done |-> TRUE,
                     regions |-> slot_in_biggest_advice_first(measure)]
    /\ UNCHANGED <<script, pass, pc, guards, root, measure, plan,
                   region_index, sink, advice, given, region_calls, result>>

(***************************************************************************)
(* The region closures of the circuits explored, and the shape lists the   *)
(* placement is explored on.                                               *)
(***************************************************************************)
RegionClosures ==
    { \* two rows of one advice column
      Closure(<<AssignAdvice(AdviceA, 0, ToOk), AssignAdvice(AdviceA, 1, ToOk)>>,
              Ok),
      \* two cells made equal, the second in a column outside the permutation
      Closure(<<AssignAdvice(AdviceA, 0, ToOk), AssignAdvice(AdviceB, 0, ToOk),
                ConstrainEqual(1, 2)>>, Ok),
      \* two cells of the permutation's column made equal
      Closure(<<AssignAdvice(AdviceA, 0, ToOk), AssignAdvice(AdviceA, 1, ToOk),
                ConstrainEqual(1, 2)>>, Ok),
      \* a selector and a fixed cell
      Closure(<<EnableSelector(SelectorA, 0), AssignFixed(FixedA, 0, ToOk)>>,
              Ok),
      \* a value producer that fails
      Closure(<<AssignAdvice(AdviceA, 0, ToErr), AssignAdvice(AdviceB, 0, ToOk)>>,
              Ok),
      \* a closure that fails after its call
      Closure(<<AssignAdvice(AdviceB, 0, ToOk)>>, Err("SynthesisError")),
      \* three rows, the last beyond the witness when the region starts low
      Closure(<<AssignFixed(FixedA, 0, ToOk), AssignAdvice(AdviceB, 2, ToOk)>>,
              Ok) }

\* Circuits that return the error of a failed assign_region at once.
ReturningCalls == {AssignRegionCall(c, "return") : c \in RegionClosures}

\* Circuits that may also handle the error of a closure that fails and go
\* on.
HandlingCalls ==
    ReturningCalls
        \cup {AssignRegionCall(c, "continue") :
                c \in {k \in RegionClosures :
                        \/ ~k.returns.ok
                        \/ \E i \in 1 .. Len(k.ops) : ~k.ops[i].to.ok}}

\* Shapes handed to the placement, and the rows of each.
MaxShapes == 3
MaxRowCount == 2

ColumnSets ==
    {{AdviceA}, {AdviceA, AdviceB}, {FixedA}, {AdviceB, FixedA}}

ShapeOf(index, columns, rows) ==
    [region_index |-> index, columns |-> columns, rows |-> 0 .. (rows - 1)]

\* The list of the shapes of the given columns and row counts, numbered in
\* order as MeasurementPass numbers them.
ShapeList(f) == [i \in 1 .. Len(f) |-> ShapeOf(i - 1, f[i][1], f[i][2])]

\* The stages entered: the placement and the assignment pass are added as
\* V1::synthesize reaches them.
Entering ==
    ran' = IF pass' # pass /\ pass' \in {"placement", "assignment"}
           THEN Append(ran, pass')
           ELSE ran

SynthesizeNext(calls) ==
    /\ \/ Namespace
       \/ DropGuard
       \/ PushNamespace
       \/ PopNamespace
       \/ \E c \in calls : AssignRegion(c)
       \/ CircuitReturnsOk
       \/ Place
    /\ Entering

(***************************************************************************)
(* Circuit types.  Circuit::configure is a function of the type alone: it  *)
(* receives the constraint system and no circuit value.  A type is given   *)
(* by the calls its configure makes; a call names a column by the order in *)
(* which this run of configure allocated it.                               *)
(***************************************************************************)
ConfigCall(method, columns, queries) ==
    [method |-> method, columns |-> columns, queries |-> queries]

Allocate(method) == ConfigCall(method, <<>>, <<>>)

\* A query a closure makes on the k-th column allocated.
QueryOf(method, k, rotation) == [method |-> method, column |-> k, at |-> rotation]

\* The queries of a closure on the columns allocated so far.
Resolve(queries, cols) ==
    [i \in 1 .. Len(queries) |->
        QueryCall(queries[i].method, cols[queries[i].column], queries[i].at)]

\* One call of configure on the constraint system: st.cs is the constraint
\* system, st.cols the columns this run has allocated.
ConfigureCall(st, call) ==
    CASE call.method = "advice_column" ->
            LET r == advice_column(st.cs)
            IN  [cs |-> r.cs, cols |-> Append(st.cols, r.column)]
      [] call.method = "fixed_column" ->
            LET r == fixed_column(st.cs)
            IN  [cs |-> r.cs, cols |-> Append(st.cols, r.column)]
      [] call.method = "instance_column" ->
            LET r == instance_column(st.cs)
            IN  [cs |-> r.cs, cols |-> Append(st.cols, r.column)]
      [] call.method = "create_gate" ->
            LET cells == RunQueries(VirtualCellsNew(st.cs),
                                    Resolve(call.queries, st.cols))
                constraints ==
                    GateClosureResult([constrain |-> TRUE], cells.exprs)
            IN  [st EXCEPT !.cs = create_gate("gate", cells, constraints).cs]
      [] call.method = "lookup" ->
            LET cells == RunQueries(VirtualCellsNew(st.cs),
                                    Resolve(call.queries, st.cols))
                table_map == LookupClosureResult(call, cells.exprs)
            IN  [st EXCEPT
                    !.cs = [cells.meta EXCEPT
                              !.lookups = Append(@, LookupArgument(table_map))]]
      [] call.method = "permutation" ->
            LET columns == [i \in 1 .. Len(call.columns) |->
                                st.cols[call.columns[i]]]
                q == PermutationQueries(st.cs, columns, <<>>)
            IN  [st EXCEPT
                    !.cs = [q.cs EXCEPT
                              !.permutations =
                                  Append(@, PermutationArgument(columns))]]

RECURSIVE ConfigureCalls(_, _)
ConfigureCalls(st, calls) ==
    IF calls = <<>>
    THEN st
    ELSE ConfigureCalls(ConfigureCall(st, Head(calls)), Tail(calls))

\* ConcreteCircuit::configure(&mut meta): the calls of the type, made in
\* order on the constraint system handed over.
configure(concrete_circuit, cs) ==
    ConfigureCalls([cs |-> cs, cols |-> <<>>], concrete_circuit).cs

\* One advice, one instance and one fixed column under one gate.
PlainCircuit ==
    <<Allocate("advice_column"), Allocate("instance_column"),
      Allocate("fixed_column"),
      ConfigCall("create_gate", <<>>,
                 <<QueryOf("query_advice", 1, RotationCur),
                   QueryOf("query_instance", 2, RotationCur),
                   QueryOf("query_fixed", 3, RotationCur)>>)>>

\* Two advice columns under a gate, a lookup of the second into a fixed
\* column and a permutation over both; the instance column is not queried.
LookupCircuit ==
    <<Allocate("advice_column"), Allocate("advice_column"),
      Allocate("instance_column"), Allocate("fixed_column"),
      ConfigCall("create_gate", <<>>,
                 <<QueryOf("query_advice", 1, RotationCur),
                   QueryOf("query_advice", 1, RotationNext)>>),
      ConfigCall("lookup", <<>>,
                 <<QueryOf("query_any", 2, RotationCur),
                   QueryOf("query_any", 4, RotationCur)>>),
      ConfigCall("permutation", <<1, 2>>, <<>>)>>

\* Two instance columns queried at two rows, and two lookups.
TwoLookupCircuit ==
    <<Allocate("instance_column"), Allocate("instance_column"),
      Allocate("advice_column"),
      ConfigCall("create_gate", <<>>,
                 <<QueryOf("query_instance", 2, RotationCur),
                   QueryOf("query_instance", 1, RotationNext)>>),
      ConfigCall("lookup", <<>>, <<QueryOf("query_any", 3, RotationCur)>>),
      ConfigCall("lookup", <<>>,
                 <<QueryOf("query_any", 3, RotationNext),
                   QueryOf("query_any", 1, RotationNext)>>)>>

CircuitTypes == {PlainCircuit, LookupCircuit, TwoLookupCircuit}
(***************************************************************************)
(* create_proof.  The transcript is the list of the operations made on it, *)
(* in order; an operation that failed is the last of the list.  The        *)
(* polynomials, commitments and evaluations are named by the instance set  *)
(* or circuit, the column or argument and the rotation they belong to.     *)
(***************************************************************************)
\* One operation on the transcript.  set is the number of the instance set
\* or circuit (from 1, 0 for none), index the column, query or argument
\* (from 0), column and rotation the query evaluated.
Op(op, what, set, index) ==
    [op |-> op, what |-> what, set |-> set, index |-> index,
     column |-> 0, rotation |-> 0, ok |-> TRUE]

EvalOp(what, set, index, query) ==
    [op |-> "write_scalar", what |-> what, set |-> set, index |-> index,
     column |-> query[1].index, rotation |-> query[2], ok |-> TRUE]

Squeeze(what) == Op("squeeze_challenge_scalar", what, 0, 0)

RECURSIVE Concat(_)
\* flat_map: the lists of a list, one after the other
Concat(lists) ==
    IF lists = <<>> THEN <<>> ELSE Head(lists) \o Concat(Tail(lists))

\* The operations of ops made in order, of which the first k succeed: the
\* next one, if any, fails and none is made after it.
Attempt(ops, k) ==
    SubSeq(ops, 1, k)
        \o (IF k < Len(ops) THEN <<[ops[k + 1] EXCEPT !.ok = FALSE]>> ELSE <<>>)

Min(a, b) == IF a <= b THEN a ELSE b

\* instance.iter().zip(advice.iter()): the instance sets and circuits that
\* have a partner
Zipped == 1 .. Min(Len(instances), circuits)

\* Where create_proof stands.
At(line) == [at |-> line, i |-> 1]
AtSet(line, i) == [at |-> line, i |-> i]

\* create_proof returns.
Return(r) ==
    /\ proof' = r
    /\ step' = At("returned")

\* The operations ops are made until one fails; create_proof returns error
\* at the failure and goes on to next otherwise.
Transcribe(ops, error, next) ==
    \E k \in 0 .. Len(ops) :
        /\ transcript' = transcript \o Attempt(ops, k)
        /\ IF k < Len(ops)
           THEN Return(Err(error))
           ELSE /\ step' = next
                /\ proof' = proof

\* A slip in the loop: only the first instance set is looked at.
ValidateFirstInstance ==
    /\ step.at = "validate"
    /\ IF instances # <<>> /\ instances[1] # pk.vk.cs.num_instance_columns
       THEN Return(Err("IncompatibleParams"))
       ELSE /\ step' = At("hash_into")
            /\ proof' = proof
    /\ UNCHANGED <<pk, circuit_type, instances, circuits, prover_meta,
                   transcript, configured, synthesized, opening>>

\* for instance in instances.iter() { if instance.len() != ... }
ValidateInstances ==
    /\ step.at = "validate"
    /\ IF \E i \in 1 .. Len(instances) :
            instances[i] # pk.vk.cs.num_instance_columns
       THEN Return(Err("IncompatibleParams"))
       ELSE /\ step' = At("hash_into")
            /\ proof' = proof
    /\ UNCHANGED <<pk, circuit_type, instances, circuits, prover_meta,
                   transcript, configured, synthesized, opening>>

\* pk.vk.hash_into(transcript).map_err(|_| Error::TranscriptError)?
HashInto ==
    /\ step.at = "hash_into"
    /\ Transcribe(<<Op("hash_into", "verifying_key", 0, 0)>>,
                  "TranscriptError", At("configure"))
    /\ UNCHANGED <<pk, circuit_type, instances, circuits, prover_meta,
                   configured, synthesized, opening>>

\* let mut meta = ConstraintSystem::default();
\* let config = ConcreteCircuit::configure(&mut meta);
Configure ==
    /\ step.at = "configure"
    /\ prover_meta' = configure(circuit_type, DefaultConstraintSystem)
    /\ configured' = configured + 1
    /\ step' = AtSet("instance", 1)
    /\ UNCHANGED <<pk, circuit_type, instances, circuits, transcript,
                   synthesized, opening, proof>>

\* The closure mapped over instances: the commitments of one instance set
\* go to the transcript as common points.
CommitInstance ==
    /\ step.at = "instance"
    /\ step.i <= Len(instances)
    /\ Transcribe([c \in 1 .. instances[step.i] |->
                     Op("common_point", "instance_commitment", step.i, c - 1)],
                  "TranscriptError", AtSet("instance", step.i + 1))
    /\ UNCHANGED <<pk, circuit_type, instances, circuits, prover_meta,
                   configured, synthesized, opening>>

\* collect::<Result<Vec<_>, _>>()? once every instance set is done
InstancesDone ==
    /\ step.at = "instance"
    /\ step.i > Len(instances)
    /\ step' = AtSet("advice", 1)
    /\ UNCHANGED <<pk, circuit_type, instances, circuits, prover_meta,
                   transcript, configured, synthesized, opening, proof>>

\* What FloorPlanner::synthesize can return on the witness sink.
SynthesizeResults == {Ok, Err("SynthesisError"), Err("BoundsFailure")}

\* The closure mapped over circuits: the circuit is synthesized on a fresh
\* WitnessCollection, an error of the synthesis is returned as it is, and
\* the commitment of each advice column is written.
CommitAdvice ==
    /\ step.at = "advice"
    /\ step.i <= circuits
    /\ \E r \in SynthesizeResults :
        /\ synthesized' = Append(synthesized, r)
        /\ IF r.ok
           THEN Transcribe([c \in 1 .. prover_meta.num_advice_columns |->
                              Op("write_point", "advice_commitment",
                                 step.i, c - 1)],
                           "TranscriptError", AtSet("advice", step.i + 1))
           ELSE /\ Return(r)
                /\ transcript' = transcript
    /\ UNCHANGED <<pk, circuit_type, instances, circuits, prover_meta,
                   configured, opening>>

AdviceDone ==
    /\ step.at = "advice"
    /\ step.i > circuits
    /\ step' = At("theta")
    /\ UNCHANGED <<pk, circuit_type, instances, circuits, prover_meta,
                   transcript, configured, synthesized, opening, proof>>

\* transcript.squeeze_challenge_scalar() cannot fail.
SqueezeChallenges(line, challenges, next) ==
    /\ step.at = line
    /\ transcript' = transcript \o challenges
    /\ step' = At(next)
    /\ UNCHANGED <<pk, circuit_type, instances, circuits, prover_meta,
                   configured, synthesized, opening, proof>>

\* let theta = transcript.squeeze_challenge_scalar();
SqueezeTheta == SqueezeChallenges("theta", <<Squeeze("theta")>>, "commit_permuted")

\* A slip in the order of the two challenges: gamma is squeezed first.
SqueezeGammaBeta ==
    SqueezeChallenges("beta_gamma", <<Squeeze("gamma"), Squeeze("beta")>>,
                      "permutation_commit")

\* let beta = ...; let gamma = ...;
SqueezeBetaGamma ==
    SqueezeChallenges("beta_gamma", <<Squeeze("beta"), Squeeze("gamma")>>,
                      "permutation_commit")

SqueezeY == SqueezeChallenges("y", <<Squeeze("y")>>, "vanishing_construct")

SqueezeX == SqueezeChallenges("x", <<Squeeze("x")>>, "instance_evals")

\* Called once per zipped pair and lookup, in that order.
PerLookup(entries(_, _)) ==
    Concat([p \in Zipped |->
              Concat([l \in 1 .. Len(pk.vk.cs.lookups) |-> entries(p, l - 1)])])

\* Called once per zipped pair and permutation, in that order.
PerPermutation(entries(_, _)) ==
    Concat([p \in Zipped |->
              Concat([i \in 1 .. Len(pk.vk.cs.permutations) |->
                        entries(p, i - 1)])])

\* lookup::Argument::commit_permuted writes the commitment of the permuted
\* input, then that of the permuted table.
commit_permuted(p, l) ==
    <<Op("write_point", "permuted_input_commitment", p, l),
      Op("write_point", "permuted_table_commitment", p, l)>>

\* permutation::Argument::commit writes the commitment of the running
\* product.
permutation_commit(p, i) ==
    <<Op("write_point", "permutation_product_commitment", p, i)>>

\* lookup::prover::Permuted::commit_product writes the commitment of the
\* running product Z'.
commit_product(p, l) ==
    <<Op("write_point", "lookup_product_commitment", p, l)>>

\* vanishing::Argument::construct writes the commitments of the quotient
\* polynomial.
vanishing_construct == <<Op("write_point", "vanishing_commitments", 0, 0)>>

\* vanishing::Constructed::evaluate writes the evaluations of the quotient
\* polynomial.
vanishing_evaluate == <<Op("write_scalar", "vanishing_evals", 0, 0)>>

\* permutation::prover::Constructed::evaluate writes the running product
\* at x and at w^-1 x.
permutation_evaluate(p, i) ==
    <<Op("write_scalar", "permutation_product_eval", p, i),
      Op("write_scalar", "permutation_product_inv_eval", p, i)>>

\* lookup::prover::Constructed::evaluate writes what the verifier's
\* Committed::evaluate reads, in its order.
lookup_evaluate(p, l) ==
    <<Op("write_scalar", "product_eval", p, l),
      Op("write_scalar", "product_inv_eval", p, l),
      Op("write_scalar", "permuted_input_eval", p, l),
      Op("write_scalar", "permuted_input_inv_eval", p, l),
      Op("write_scalar", "permuted_table_eval", p, l)>>

\* A step of create_proof that hands the transcript to an argument: the
\* error the argument returns is returned as it is.
Argument(line, ops, next) ==
    /\ step.at = line
    /\ Transcribe(ops, "TranscriptError", At(next))
    /\ UNCHANGED <<pk, circuit_type, instances, circuits, prover_meta,
                   configured, synthesized, opening>>

\* lookup.commit_permuted(...) for each zipped pair and lookup
CommitPermuted ==
    Argument("commit_permuted", PerLookup(commit_permuted), "beta_gamma")

\* p.commit(...) for each zipped pair and permutation
CommitPermutations ==
    Argument("permutation_commit", PerPermutation(permutation_commit),
             "commit_product")

\* lookup.commit_product(...) for each zipped pair and lookup
CommitProducts ==
    Argument("commit_product", PerLookup(commit_product), "y")

\* vanishing::Argument::construct(params, domain, expressions, y, transcript)?
ConstructVanishing ==
    Argument("vanishing_construct", vanishing_construct, "x")

\* The evaluations of the queries of one table on each of n sets, set by
\* set and in the order of the table.
QueryEvals(what, n, queries) ==
    Concat([s \in 1 .. n |->
              [q \in 1 .. Len(queries) |-> EvalOp(what, s, q - 1, queries[q])]])

\* A slip in the evaluation loops: the advice evaluations are written
\* before the instance evaluations.
InstanceEvalsLate ==
    /\ step.at = "instance_evals"
    /\ Transcribe(QueryEvals("advice_eval", circuits,
                             prover_meta.advice_queries),
                  "TranscriptError", At("advice_evals"))
    /\ UNCHANGED <<pk, circuit_type, instances, circuits, prover_meta,
                   configured, synthesized, opening>>

\* for instance in instance.iter() { ... transcript.write_scalar(*eval) }
InstanceEvals ==
    /\ step.at = "instance_evals"
    /\ Transcribe(QueryEvals("instance_eval", Len(instances),
                             prover_meta.instance_queries),
                  "TranscriptError", At("advice_evals"))
    /\ UNCHANGED <<pk, circuit_type, instances, circuits, prover_meta,
                   configured, synthesized, opening>>

\* for advice in advice.iter() { ... transcript.write_scalar(*eval) }
AdviceEvals ==
    /\ step.at = "advice_evals"
    /\ Transcribe(QueryEvals("advice_eval", circuits,
                             prover_meta.advice_queries),
                  "TranscriptError", At("fixed_evals"))
    /\ UNCHANGED <<pk, circuit_type, instances, circuits, prover_meta,
                   configured, synthesized, opening>>

\* for eval in fixed_evals.iter() { transcript.write_scalar(*eval) }
FixedEvals ==
    /\ step.at = "fixed_evals"
    /\ Transcribe([q \in 1 .. Len(prover_meta.fixed_queries) |->
                     EvalOp("fixed_eval", 0, q - 1,
                            prover_meta.fixed_queries[q])],
                  "TranscriptError", At("vanishing_evaluate"))
    /\ UNCHANGED <<pk, circuit_type, instances, circuits, prover_meta,
                   configured, synthesized, opening>>

\* vanishing.evaluate(x, transcript)?
EvaluateVanishing ==
    Argument("vanishing_evaluate", vanishing_evaluate, "permutation_evaluate")

\* p.evaluate(pk, pkey, x, transcript) for each pair and permutation
EvaluatePermutations ==
    Argument("permutation_evaluate", PerPermutation(permutation_evaluate),
             "lookup_evaluate")

\* p.evaluate(pk, x, transcript) for each pair and lookup
EvaluateLookups ==
    Argument("lookup_evaluate", PerLookup(lookup_evaluate), "multiopen")

\* multiopen::create_proof: the opening proof is built and written to the
\* transcript; it fails when the proof cannot be built, and when the
\* transcript refuses the write.
MultiopenOutcomes == {"written", "not_built", "not_written"}

multiopen_create_proof(outcome) ==
    CASE outcome = "written" ->
            [ops |-> <<Op("write", "opening_proof", 0, 0)>>, ok |-> TRUE]
      [] outcome = "not_built" -> [ops |-> <<>>, ok |-> FALSE]
      [] outcome = "not_written" ->
            [ops |-> <<[Op("write", "opening_proof", 0, 0) EXCEPT !.ok = FALSE]>>,
             ok |-> FALSE]

\* multiopen::create_proof(params, transcript, instances)
\*     .map_err(|_| Error::OpeningError)
Multiopen ==
    /\ step.at = "multiopen"
    /\ \E outcome \in MultiopenOutcomes :
        LET r == multiopen_create_proof(outcome)
        IN  /\ opening' = outcome
            /\ transcript' = transcript \o r.ops
            /\ Return(IF r.ok THEN Ok ELSE Err("OpeningError"))
    /\ UNCHANGED <<pk, circuit_type, instances, circuits, prover_meta,
                   configured, synthesized>>

\* Instance sets and circuits of one proof, and columns of an instance set.
MaxSets == 2
MaxInstanceLen == 2

\* The proving key was generated for the circuit type: its constraint
\* system is the one configure built then.
ProofInit ==
    /\ circuit_type \in CircuitTypes
    /\ pk = [vk |-> [cs |-> configure(circuit_type, DefaultConstraintSystem)]]
    /\ \E n \in 0 .. MaxSets : instances \in [1 .. n -> 1 .. MaxInstanceLen]
    /\ circuits \in 0 .. MaxSets
    /\ prover_meta = DefaultConstraintSystem
    /\ step = At("validate")
    /\ transcript = <<>>
    /\ configured = 0
    /\ synthesized = <<>>
    /\ opening = "none"
    /\ proof = Pending

\* No proof is being made.
ProofIdle ==
    /\ circuit_type = <<>>
    /\ pk = [vk |-> [cs |-> DefaultConstraintSystem]]
    /\ instances = <<>>
    /\ circuits = 0
    /\ prover_meta = DefaultConstraintSystem
    /\ step = At("returned")
    /\ transcript = <<>>
    /\ configured = 0
    /\ synthesized = <<>>
    /\ opening = "none"
    /\ proof = Pending

CreateProofNext ==
    \/ ValidateInstances
    \/ HashInto
    \/ Configure
    \/ CommitInstance
    \/ InstancesDone
    \/ CommitAdvice
    \/ AdviceDone
    \/ SqueezeTheta
    \/ CommitPermuted
    \/ SqueezeBetaGamma
    \/ CommitPermutations
    \/ CommitProducts
    \/ SqueezeY
    \/ ConstructVanishing
    \/ SqueezeX
    \/ InstanceEvals
    \/ AdviceEvals
    \/ FixedEvals
    \/ EvaluateVanishing
    \/ EvaluatePermutations
    \/ EvaluateLookups
    \/ Multiopen

(***************************************************************************)
(* The lookup verifier (src/plonk/lookup/verifier.rs).  The stage types    *)
(* PermutationCommitments, Committed and Evaluated are records of the      *)
(* fields of the structs; commitments are named by small numbers.          *)
(***************************************************************************)
PermutationCommitments(permuted_input_commitment, permuted_table_commitment) ==
    [permuted_input_commitment |-> permuted_input_commitment,
     permuted_table_commitment |-> permuted_table_commitment]

Committed(permuted, product_commitment) ==
    [permuted |-> permuted, product_commitment |-> product_commitment]

Evaluated(committed, product_eval, product_inv_eval, permuted_input_eval, permuted_input_inv_eval, permuted_table_eval) ==
    [committed |-> committed,
     product_eval |-> product_eval,
     product_inv_eval |-> product_inv_eval,
     permuted_input_eval |-> permuted_input_eval,
     permuted_input_inv_eval |-> permuted_input_inv_eval,
     permuted_table_eval |-> permuted_table_eval]

RECURSIVE Fold(_, _, _)
\* .fold(C::Scalar::zero(), |acc, eval| acc * &*theta + &eval), from acc on
Fold(evals, acc, theta) ==
    IF evals = <<>>
    THEN acc
    ELSE Fold(Tail(evals), FAdd(FMul(acc, theta), Head(evals)), theta)

RECURSIVE FoldScaledEval(_, _, _)
\* A slip in the closure of the fold: acc + eval * theta.
FoldScaledEval(evals, acc, theta) ==
    IF evals = <<>>
    THEN acc
    ELSE FoldScaledEval(Tail(evals), FAdd(acc, FMul(Head(evals), theta)), theta)

\* The slip inside compress_expressions.
compress_expressions_scaled_eval(expressions, theta, fixed_evals, advice_evals, instance_evals) ==
    FoldScaledEval(
        [i \in 1 .. Len(expressions) |->
            Evaluate(expressions[i],
                     FieldInterp(fixed_evals, advice_evals, instance_evals))],
        FZero, theta)

\* compress_expressions: every expression of the list is evaluated on the
\* evaluations read, and the values are folded with theta.
compress_expressions(expressions, theta, fixed_evals, advice_evals, instance_evals) ==
    Fold([i \in 1 .. Len(expressions) |->
            Evaluate(expressions[i],
                     FieldInterp(fixed_evals, advice_evals, instance_evals))],
         FZero, theta)

\* A slip in product_expression: beta and gamma change places on the right.
product_expression_swapped(self, argument, theta, beta, gamma, advice_evals, fixed_evals, instance_evals) ==
    LET left ==
            FMul(FMul(self.product_eval, FAdd(self.permuted_input_eval, beta)),
                 FAdd(self.permuted_table_eval, gamma))
        right ==
            FMul(FMul(self.product_inv_eval,
                      FAdd(compress_expressions(argument.input_expressions,
                               theta, fixed_evals, advice_evals,
                               instance_evals), gamma)),
                 FAdd(compress_expressions(argument.table_expressions, theta,
                          fixed_evals, advice_evals, instance_evals), beta))
    IN  FSub(left, right)

\* The closure product_expression of Evaluated::expressions.
product_expression(self, argument, theta, beta, gamma, advice_evals, fixed_evals, instance_evals) ==
    LET left ==
            FMul(FMul(self.product_eval, FAdd(self.permuted_input_eval, beta)),
                 FAdd(self.permuted_table_eval, gamma))
        right ==
            FMul(FMul(self.product_inv_eval,
                      FAdd(compress_expressions(argument.input_expressions,
                               theta, fixed_evals, advice_evals,
                               instance_evals), beta)),
                 FAdd(compress_expressions(argument.table_expressions, theta,
                          fixed_evals, advice_evals, instance_evals), gamma))
    IN  FSub(left, right)

\* A slip in expressions: the third value without l_0.
expressions_unselected(self, l_0, argument, theta, beta, gamma, advice_evals, fixed_evals, instance_evals) ==
    <<FMul(l_0, FSub(FOne, self.product_eval)),
      product_expression(self, argument, theta, beta, gamma, advice_evals,
                         fixed_evals, instance_evals),
      FSub(self.permuted_input_eval, self.permuted_table_eval),
      FMul(FSub(self.permuted_input_eval, self.permuted_table_eval),
           FSub(self.permuted_input_eval, self.permuted_input_inv_eval))>>

\* Evaluated::expressions: the chain of the four values.
expressions(self, l_0, argument, theta, beta, gamma, advice_evals, fixed_evals, instance_evals) ==
    <<FMul(l_0, FSub(FOne, self.product_eval)),
      product_expression(self, argument, theta, beta, gamma, advice_evals,
                         fixed_evals, instance_evals),
      FMul(l_0, FSub(self.permuted_input_eval, self.permuted_table_eval)),
      FMul(FSub(self.permuted_input_eval, self.permuted_table_eval),
           FSub(self.permuted_input_eval, self.permuted_input_inv_eval))>>

\* VerifierQuery { point, commitment, eval }
VerifierQuery(point, commitment, eval) ==
    [point |-> point, commitment |-> commitment, eval |-> eval]

\* vk.domain.rotate_omega(*x, Rotation(-1)): x times the inverse of the
\* generator of the domain.
OmegaInv == 2 % P
rotate_omega_inv(x) == FMul(x, OmegaInv)

\* A slip in queries: the product is opened at w^-1 x with the evaluation
\* read for x.
queries_same_eval(self, x) ==
    LET x_inv == rotate_omega_inv(x)
    IN  <<VerifierQuery(x, self.committed.product_commitment,
                        self.product_eval),
          VerifierQuery(x, self.committed.permuted.permuted_input_commitment,
                        self.permuted_input_eval),
          VerifierQuery(x, self.committed.permuted.permuted_table_commitment,
                        self.permuted_table_eval),
          VerifierQuery(x_inv,
                        self.committed.permuted.permuted_input_commitment,
                        self.permuted_input_inv_eval),
          VerifierQuery(x_inv, self.committed.product_commitment,
                        self.product_eval)>>

\* Evaluated::queries: the chain of the five queries.
queries(self, x) ==
    LET x_inv == rotate_omega_inv(x)
    IN  <<VerifierQuery(x, self.committed.product_commitment,
                        self.product_eval),
          VerifierQuery(x, self.committed.permuted.permuted_input_commitment,
                        self.permuted_input_eval),
          VerifierQuery(x, self.committed.permuted.permuted_table_commitment,
                        self.permuted_table_eval),
          VerifierQuery(x_inv,
                        self.committed.permuted.permuted_input_commitment,
                        self.permuted_input_inv_eval),
          VerifierQuery(x_inv, self.committed.product_commitment,
                        self.product_inv_eval)>>

\* The lookup arguments explored: none, one, two and three pairs of an
\* input and a table expression.
LookupArguments ==
    {[input_expressions |-> <<>>, table_expressions |-> <<>>],
     [input_expressions |-> <<ExprAdvice(0)>>,
      table_expressions |-> <<ExprFixed(0)>>],
     [input_expressions |-> <<ExprAdvice(0), ExprAdvice(1)>>,
      table_expressions |-> <<ExprFixed(0), ExprInstance(0)>>],
     [input_expressions |->
        <<ExprAdvice(1), Product(ExprAdvice(0), ExprFixed(0)),
          Scaled(ExprInstance(0), FNeg(FOne))>>,
      table_expressions |->
        <<ExprFixed(0), ExprConstant(FOne),
          Sum(ExprAdvice(0), ExprAdvice(1))>>]}

\* The evaluations of the queried columns at x handed to expressions.
QueriedEvals ==
    {[advice_evals |-> <<2 % P, 3 % P>>, fixed_evals |-> <<FOne>>,
      instance_evals |-> <<FNeg(FOne)>>],
     [advice_evals |-> <<FOne, FZero>>, fixed_evals |-> <<FNeg(FOne)>>,
      instance_evals |-> <<2 % P>>]}

\* The scalars read as evaluations, and the values of the challenges.
EvalScalars == {FZero, FOne, FNeg(FOne)}
L0Values == {FZero, FOne}
ThetaValues == {2 % P, FNeg(FOne)}
BetaValues == {FZero, FOne}
GammaValues == {FZero, 3 % P}

\* The stage of the lookup verifier: the value of the stage type it holds.
Stage(name, value) == [stage |-> name, value |-> value]

NothingRead == Stage("Argument", <<>>)

NotCalled == [called |-> "none"]

LookupIdle ==
    /\ reads = <<>>
    /\ lk = NothingRead
    /\ lookup_in = <<>>
    /\ lookup_out = NotCalled

\* evaluated.expressions(l_0, argument, theta, beta, gamma, advice_evals,
\* fixed_evals, instance_evals), collected.
Expressions ==
    /\ lk.stage = "Evaluated"
    /\ lookup_out = NotCalled
    /\ \E l_0 \in L0Values, argument \in LookupArguments, theta \in ThetaValues,
          beta \in BetaValues, gamma \in GammaValues, evals \in QueriedEvals :
        /\ lookup_in' = [l_0 |-> l_0, argument |-> argument, theta |-> theta,
                         beta |-> beta, gamma |-> gamma, evals |-> evals]
        /\ lookup_out' =
            [called |-> "expressions",
             expressions |->
                expressions(lk.value, l_0, argument, theta, beta, gamma,
                            evals.advice_evals, evals.fixed_evals,
                            evals.instance_evals),
             compressed_input |->
                compress_expressions(argument.input_expressions, theta,
                    evals.fixed_evals, evals.advice_evals,
                    evals.instance_evals),
             compressed_table |->
                compress_expressions(argument.table_expressions, theta,
                    evals.fixed_evals, evals.advice_evals,
                    evals.instance_evals)]
    /\ UNCHANGED <<reads, lk>>

\* An Evaluated of any five evaluations.
ExpressionsInit ==
    /\ reads = <<>>
    /\ \E z, zi, a, ai, s \in EvalScalars :
        lk = Stage("Evaluated",
                   Evaluated(Committed(PermutationCommitments(1, 2), 3),
                             z, zi, a, ai, s))
    /\ lookup_in = <<>>
    /\ lookup_out = NotCalled

\* What a read on the transcript gives: a value, or a failure.
ReadOk(value) == [ok |-> TRUE, value |-> value]
ReadFailed == [ok |-> FALSE, value |-> 0]

\* The points and scalars a transcript may hold.
Points == {1, 2, 3}
ReadScalars == {FOne, FNeg(FOne)}

\* transcript.read_point() / read_scalar() as an entry of the log of reads
ReadOp(op, r) == [op |-> op, ok |-> r.ok, value |-> r.value]

\* The reads made by a chain of `transcript.read_x().map_err(..)?`: every
\* read up to and including the first that fails.
RECURSIVE ReadsUntilFailure(_, _)
ReadsUntilFailure(op, results) ==
    IF results = <<>>
    THEN <<>>
    ELSE IF ~Head(results).ok
         THEN <<ReadOp(op, Head(results))>>
         ELSE <<ReadOp(op, Head(results))>>
              \o ReadsUntilFailure(op, Tail(results))

AllOk(results) == \A i \in 1 .. Len(results) : results[i].ok

TranscriptError == Stage("Error", "TranscriptError")

\* Argument::read_permuted_commitments: results are what the transcript
\* gives to the successive reads.
read_permuted_commitments(results) ==
    [reads |-> ReadsUntilFailure("read_point", results),
     out |-> IF AllOk(results)
             THEN Stage("PermutationCommitments",
                        PermutationCommitments(results[1].value,
                                               results[2].value))
             ELSE TranscriptError]

\* PermutationCommitments::read_product_commitment
read_product_commitment(self, results) ==
    [reads |-> ReadsUntilFailure("read_point", results),
     out |-> IF AllOk(results)
             THEN Stage("Committed", Committed(self, results[1].value))
             ELSE TranscriptError]

\* A slip in evaluate: the second and third scalars change fields.
evaluate_swapped(self, results) ==
    [reads |-> ReadsUntilFailure("read_scalar", results),
     out |-> IF AllOk(results)
             THEN Stage("Evaluated",
                        Evaluated(self, results[1].value, results[3].value,
                                  results[2].value, results[4].value,
                                  results[5].value))
             ELSE TranscriptError]

\* Committed::evaluate
evaluate(self, results) ==
    [reads |-> ReadsUntilFailure("read_scalar", results),
     out |-> IF AllOk(results)
             THEN Stage("Evaluated",
                        Evaluated(self, results[1].value, results[2].value,
                                  results[3].value, results[4].value,
                                  results[5].value))
             ELSE TranscriptError]

\* The sequences of k results a transcript can give to a chain of reads
\* that stops at the first failure.
ReadResults(values) == {ReadOk(v) : v \in values} \cup {ReadFailed}

StopsAtFailure(results) ==
    \A i \in 1 .. Len(results) : \A j \in 1 .. Len(results) :
        (i < j /\ ~results[i].ok) => ~results[j].ok

\* The reads the verifier makes between the stages of a lookup (the other
\* arguments' commitments and evaluations) are bounded.
MaxOtherReads == 2

OtherReads == Cardinality({i \in 1 .. Len(reads) : reads[i].op = "other"})

\* verify_proof: lookup.read_permuted_commitments(transcript)
ReadPermutedCommitments ==
    /\ lk.stage = "Argument"
    /\ \E results \in [1 .. 2 -> ReadResults(Points)] :
        /\ StopsAtFailure(results)
        /\ LET r == read_permuted_commitments(results)
           IN  /\ reads' = reads \o r.reads
               /\ lk' = r.out
    /\ UNCHANGED <<lookup_in, lookup_out>>

\* verify_proof: permuted.read_product_commitment(transcript)
ReadProductCommitment ==
    /\ lk.stage = "PermutationCommitments"
    /\ \E results \in [1 .. 1 -> ReadResults(Points)] :
        LET r == read_product_commitment(lk.value, results)
        IN  /\ reads' = reads \o r.reads
            /\ lk' = r.out
    /\ UNCHANGED <<lookup_in, lookup_out>>

\* verify_proof: committed.evaluate(transcript)
EvaluateCommitted ==
    /\ lk.stage = "Committed"
    /\ \E results \in [1 .. 5 -> ReadResults(ReadScalars)] :
        /\ StopsAtFailure(results)
        /\ LET r == evaluate(lk.value, results)
           IN  /\ reads' = reads \o r.reads
               /\ lk' = r.out
    /\ UNCHANGED <<lookup_in, lookup_out>>

\* verify_proof reads for the other arguments while it holds a stage value.
ReadElsewhere ==
    /\ lk.stage \in {"Argument", "PermutationCommitments", "Committed"}
    /\ OtherReads < MaxOtherReads
    /\ reads' = Append(reads, ReadOp("other", ReadOk(0)))
    /\ UNCHANGED <<lk, lookup_in, lookup_out>>

XValues == {FOne, 3 % P}

\* verify_proof: evaluated.queries(vk, x), collected.
Queries ==
    /\ lk.stage = "Evaluated"
    /\ lookup_out = NotCalled
    /\ \E x \in XValues :
        /\ lookup_in' = [x |-> x]
        /\ lookup_out' = [called |-> "queries", queries |-> queries(lk.value, x)]
    /\ UNCHANGED <<reads, lk>>

LookupReadNext ==
    \/ ReadPermutedCommitments
    \/ ReadProductCommitment
    \/ EvaluateCommitted
    \/ ReadElsewhere
    \/ Queries

(***************************************************************************)
(* The lookup argument from end to end on the rows of the domain.  The     *)
(* lookup prover (src/plonk/lookup/prover.rs) is not part of this source   *)
(* tree: the permuted input, the permuted table and the running product    *)
(* are built as section 4.5 of the specification describes them.           *)
(***************************************************************************)
\* The row before r on the cyclic domain: the rotation by w^-1.
PrevRow(r) == IF r = 1 THEN NRows ELSE r - 1

\* l_0 at the domain point of row r
L0At(r) == IF r = 1 THEN FOne ELSE FZero

\* The values a table cell may hold, and a value no table holds.
TableCells == {FZero, FOne, 2 % P}
NotInTable == 3 % P

\* The lookup of the advice column in the table column
\* (tests/plonk_api.rs 311-315).
AdviceInTable ==
    [input_expressions |-> <<ExprAdvice(0)>>,
     table_expressions |-> <<ExprFixed(0)>>]

RECURSIVE RemoveOne(_, _)
\* seq without the first occurrence of v
RemoveOne(seq, v) ==
    IF seq = <<>>
    THEN <<>>
    ELSE IF Head(seq) = v
         THEN Tail(seq)
         ELSE <<Head(seq)>> \o RemoveOne(Tail(seq), v)

\* The permuted input: the input values in ascending order, equal values
\* in runs.
PermutedInput(input) == SortSeq(input, LAMBDA x, y : x < y)

\* The rows on which a run of the permuted input starts.
RunStarts(permuted_input) ==
    {r \in Rows : r = 1 \/ permuted_input[r] # permuted_input[r - 1]}

RECURSIVE Leftover(_, _, _)
\* The table values not used up by the run starts from row r on.
Leftover(table, permuted_input, r) ==
    IF r > NRows
    THEN table
    ELSE Leftover(IF r \in RunStarts(permuted_input)
                  THEN RemoveOne(table, permuted_input[r])
                  ELSE table,
                  permuted_input, r + 1)

\* The permuted table: at the start of a run the value of the run, on the
\* other rows the table values left over, in ascending order.
PermutedTable(table, permuted_input) ==
    LET rest == SortSeq(Leftover(table, permuted_input, 1),
                        LAMBDA x, y : x < y)
        Filler(r) ==
            Cardinality({q \in 1 .. r : q \notin RunStarts(permuted_input)})
    IN  [r \in Rows |->
            IF r \in RunStarts(permuted_input)
            THEN permuted_input[r]
            ELSE rest[Filler(r)]]

\* The running products of section 4.5: 1 on the first row, then on each
\* row the product of the row before times (a + beta)(s + gamma) over
\* (a' + beta)(s' + gamma).  The specification does not say what the
\* quotient is where the denominator vanishes: any value may stand there.
RunningProducts(input, table, permuted_input, permuted_table, beta, gamma) ==
    {product \in [Rows -> F] :
        /\ product[1] = FOne
        /\ \A r \in Rows \ {1} :
            LET numerator ==
                    FMul(FAdd(input[r], beta), FAdd(table[r], gamma))
                denominator ==
                    FInvert(FMul(FAdd(permuted_input[r], beta),
                                 FAdd(permuted_table[r], gamma)))
            IN  denominator.is_some =>
                    product[r] = FMul(FMul(product[r - 1], numerator),
                                      denominator.value)}

\* What the prover may supply for an input and a table.
Supplied(input, table, beta, gamma) ==
    LET permuted_input == PermutedInput(input)
        permuted_table == PermutedTable(table, permuted_input)
    IN  {[permuted_input |-> permuted_input,
          permuted_table |-> permuted_table,
          product |-> product] :
            product \in RunningProducts(input, table, permuted_input,
                                        permuted_table, beta, gamma)}

\* The Evaluated the verifier holds when x is the domain point of row r.
EvaluatedAtRow(supplied, r) ==
    Evaluated(Committed(PermutationCommitments(1, 2), 3),
              supplied.product[r], supplied.product[PrevRow(r)],
              supplied.permuted_input[r], supplied.permuted_input[PrevRow(r)],
              supplied.permuted_table[r])

\* The four expressions at the domain point of every row.
Identities(supplied, input, table, theta, beta, gamma) ==
    [r \in Rows |->
        expressions(EvaluatedAtRow(supplied, r), L0At(r), AdviceInTable,
                    theta, beta, gamma, <<input[r]>>, <<table[r]>>, <<>>)]

\* The challenges explored: with the table cells above, -1 makes a factor
\* vanish, 1 and 2 do not.
EndToEndChallenges == {FOne, 2 % P, FNeg(FOne)}

\* A table and an input whose every value is in the table.
EndToEndInit ==
    /\ reads = <<>>
    /\ lk = NothingRead
    /\ \E table \in [Rows -> TableCells] :
        \E input \in [Rows -> Range(table)] :
            lookup_in = [input |-> input, table |-> table, theta |-> FZero,
                         beta |-> FZero, gamma |-> FZero]
    /\ lookup_out = NotCalled

\* The prover supplies the permuted input, the permuted table and the
\* running product for the challenges; the expressions are evaluated at
\* every domain point.
SupplyGenuine ==
    /\ lookup_out = NotCalled
    /\ \E theta \in ThetaValues, beta \in EndToEndChallenges,
          gamma \in EndToEndChallenges :
        \E supplied \in Supplied(lookup_in.input, lookup_in.table, beta,
                                  gamma) :
            /\ lk' = Stage("Supplied", supplied)
            /\ lookup_in' = [lookup_in EXCEPT !.theta = theta, !.beta = beta,
                                              !.gamma = gamma]
            /\ lookup_out' =
                [called |-> "genuine",
                 identities |->
                    Identities(supplied, lookup_in.input, lookup_in.table,
                               theta, beta, gamma)]
    /\ UNCHANGED reads

\* One input value is changed to a value that is not in the table; the
\* expressions are evaluated again on what was supplied.
MutateInput ==
    /\ lookup_out.called = "genuine"
    /\ \E r \in Rows :
        \E v \in (TableCells \cup {NotInTable}) \ Range(lookup_in.table) :
            LET input == [lookup_in.input EXCEPT ![r] = v]
            IN  /\ lookup_in' = [lookup_in EXCEPT !.input = input]
                /\ lookup_out' =
                    [called |-> "mutated",
                     identities |->
                        Identities(lk.value, input, lookup_in.table,
                                   lookup_in.theta, lookup_in.beta,
                                   lookup_in.gamma)]
    /\ UNCHANGED <<reads, lk>>

EndToEndNext ==
    \/ SupplyGenuine
    \/ MutateInput

(***************************************************************************)
(* Specifications                                                          *)
(***************************************************************************)
\* Circuit configuration: calls on a fresh ConstraintSystem.
Init ==
    /\ ConstraintSystemInit
    /\ AssignedIdle
    /\ ColumnIdle
    /\ ExprIdle
    /\ V1Idle
    /\ ProofIdle
    /\ LookupIdle

Next ==
    ConfigureNext /\ UNCHANGED <<assignedVars, columnVars, exprVars, v1Vars, proofVars, lookupVars>>

Spec == Init /\ [][Next]_vars

\* Column allocation alone, on a fresh ConstraintSystem.
NextAlloc ==
    AllocateNext /\ UNCHANGED <<assignedVars, columnVars, exprVars, v1Vars, proofVars, lookupVars>>

SpecAlloc == Init /\ [][NextAlloc]_vars

\* Assigned arithmetic on every pair of operands.
InitAssigned ==
    /\ lhs \in AssignedValues
    /\ rhs \in AssignedValues
    /\ aop = "none"
    /\ ares = Zero
    /\ aval = NotEvaluated
    /\ ConstraintSystemInit
    /\ ColumnIdle
    /\ ExprIdle
    /\ V1Idle
    /\ ProofIdle
    /\ LookupIdle

NextAssigned ==
    /\ \/ DoAdd
       \/ DoSub
       \/ DoMul
       \/ DoNeg
       \/ DoInvert
       \/ DoEvaluate
    /\ UNCHANGED <<columnVars, exprVars, csVars, v1Vars, proofVars, lookupVars>>

SpecAssigned == InitAssigned /\ [][NextAssigned]_vars

\* Comparison of every triple of columns.
InitColumn ==
    /\ ca \in AllColumns
    /\ cb \in AllColumns
    /\ cc \in AllColumns
    /\ ord = NotCompared
    /\ ConstraintSystemInit
    /\ AssignedIdle
    /\ ExprIdle
    /\ V1Idle
    /\ ProofIdle
    /\ LookupIdle

NextColumn == Compare /\ UNCHANGED <<assignedVars, exprVars, csVars, v1Vars, proofVars, lookupVars>>

SpecColumn == InitColumn /\ [][NextColumn]_vars

\* Expressions built by the operators and folded by evaluate.
InitExpr ==
    /\ expr \in Leaves
    /\ eop = [op |-> "leaf", a |-> expr, b |-> expr, n |-> 0]
    /\ ev = NotFolded
    /\ ConstraintSystemInit
    /\ AssignedIdle
    /\ ColumnIdle
    /\ V1Idle
    /\ ProofIdle
    /\ LookupIdle

NextExpr ==
    /\ \/ ENeg
       \/ \E other \in Leaves : EAdd(other)
       \/ \E other \in Leaves : ESub(other)
       \/ \E other \in Leaves : EMul(other)
       \/ \E f \in Scalars : EScale(f)
       \/ ESquare
       \/ \E env \in Environments : EEvaluate(env)
    /\ UNCHANGED <<assignedVars, columnVars, csVars, v1Vars, proofVars, lookupVars>>

SpecExpr == InitExpr /\ [][NextExpr]_vars

\* V1::synthesize over the prover's witness sink, on circuits that return
\* the error of a failed assign_region.
InitV1 ==
    /\ V1Init
    /\ ConstraintSystemInit
    /\ AssignedIdle
    /\ ColumnIdle
    /\ ExprIdle
    /\ ProofIdle
    /\ LookupIdle

NextV1 ==
    /\ SynthesizeNext(ReturningCalls)
    /\ UNCHANGED <<assignedVars, columnVars, exprVars, csVars, proofVars, lookupVars>>

SpecV1 == InitV1 /\ [][NextV1]_vars

\* The same on circuits that may handle the error of a failed
\* assign_region and go on.
NextV1Handled ==
    /\ SynthesizeNext(HandlingCalls)
    /\ UNCHANGED <<assignedVars, columnVars, exprVars, csVars, proofVars, lookupVars>>

SpecV1Handled == InitV1 /\ [][NextV1Handled]_vars

\* The placement on every list of shapes.
InitPlace ==
    /\ script = <<>>
    /\ pass = "placement"
    /\ ran = <<"measurement", "placement">>
    /\ pc = 0
    /\ guards = <<>>
    /\ root = [pushes |-> 0, pops |-> 0]
    /\ \E n \in 0 .. MaxShapes :
        \E f \in [1 .. n -> ColumnSets \X (1 .. MaxRowCount)] :
            measure = ShapeList(f)
    /\ plan = <<>>
    /\ replanned = NotReplanned
    /\ region_index = 0
    /\ sink = <<>>
    /\ advice = WitnessNew
    /\ given = [measurement |-> <<>>, assignment |-> <<>>]
    /\ region_calls = <<>>
    /\ result = Pending
    /\ ConstraintSystemInit
    /\ AssignedIdle
    /\ ColumnIdle
    /\ ExprIdle
    /\ ProofIdle
    /\ LookupIdle

NextPlace ==
    /\ Place \/ PlaceAgain
    /\ Entering
    /\ UNCHANGED <<assignedVars, columnVars, exprVars, csVars, proofVars, lookupVars>>

SpecPlace == InitPlace /\ [][NextPlace]_vars

\* create_proof for a circuit type, on every list of instance sets and
\* number of circuits, over a transcript that may refuse any operation.
InitProof ==
    /\ ProofInit
    /\ ConstraintSystemInit
    /\ AssignedIdle
    /\ ColumnIdle
    /\ ExprIdle
    /\ V1Idle
    /\ LookupIdle

NextProof ==
    /\ CreateProofNext
    /\ UNCHANGED <<assignedVars, columnVars, exprVars, csVars, v1Vars, lookupVars>>

SpecProof == InitProof /\ [][NextProof]_vars

\* Evaluated::expressions on every Evaluated, argument and challenges.
InitExpressions ==
    /\ ExpressionsInit
    /\ ConstraintSystemInit
    /\ AssignedIdle
    /\ ColumnIdle
    /\ ExprIdle
    /\ V1Idle
    /\ ProofIdle

NextExpressions ==
    /\ Expressions
    /\ UNCHANGED <<assignedVars, columnVars, exprVars, csVars, v1Vars,
                   proofVars>>

SpecExpressions == InitExpressions /\ [][NextExpressions]_vars

\* The lookup verifier from the argument to the queries.
InitLookupRead ==
    /\ LookupIdle
    /\ ConstraintSystemInit
    /\ AssignedIdle
    /\ ColumnIdle
    /\ ExprIdle
    /\ V1Idle
    /\ ProofIdle

NextLookupRead ==
    /\ LookupReadNext
    /\ UNCHANGED <<assignedVars, columnVars, exprVars, csVars, v1Vars,
                   proofVars>>

SpecLookupRead == InitLookupRead /\ [][NextLookupRead]_vars

\* The lookup argument on the rows of the domain.
InitEndToEnd ==
    /\ EndToEndInit
    /\ ConstraintSystemInit
    /\ AssignedIdle
    /\ ColumnIdle
    /\ ExprIdle
    /\ V1Idle
    /\ ProofIdle

NextEndToEnd ==
    /\ EndToEndNext
    /\ UNCHANGED <<assignedVars, columnVars, exprVars, csVars, v1Vars,
                   proofVars>>

SpecEndToEnd == InitEndToEnd /\ [][NextEndToEnd]_vars

(***************************************************************************)
(* Properties of the query tables (specification Spec)                     *)
(***************************************************************************)
\* The query table of a column kind.
Table(kind) ==
    CASE kind = "Advice" -> advice_queries
      [] kind = "Fixed" -> fixed_queries
      [] kind = "Instance" -> instance_queries

\* The positions of a table that hold the pair (column, at).
Slots(kind, column, at) ==
    {i \in 1 .. Len(Table(kind)) : Table(kind)[i] = <<column, at>>}

\* C1: after any sequence of create_gate, lookup and permutation calls no
\* query table holds a (column, rotation) pair twice, every pair that was
\* queried has exactly one slot, and all the queries of one pair, whichever
\* call made them, were answered with the same index.
C1_QueryInterning ==
    /\ \A kind \in ColumnTypes :
          \A i, j \in 1 .. Len(Table(kind)) :
              Table(kind)[i] = Table(kind)[j] => i = j
    /\ \A x \in issued : Cardinality(Slots(x.kind, x.column, x.at)) = 1
    /\ \A x, y \in issued :
          (x.kind = y.kind /\ x.column = y.column /\ x.at = y.at)
              => x.index = y.index

\* A pair has been queried three times or more, by one call or by several,
\* and is the only entry of the tables.
C1_Witness ==
    /\ returned.queries >= 3
    /\ Cardinality(issued) = 1
    /\ Len(advice_queries) + Len(fixed_queries) + Len(instance_queries) = 1
    /\ NumCalls = 2

\* C2: the query tables are insertion-ordered: each table lists the distinct
\* pairs of its kind in the order they were first queried, by gates, lookups,
\* permutations and selector queries alike, and every index ever handed out
\* still denotes the pair it was handed out for.
C2_InsertionOrder ==
    /\ \A kind \in ColumnTypes : Table(kind) = first_seen[kind]
    /\ \A x \in issued :
          /\ x.index \in 0 .. (Len(Table(x.kind)) - 1)
          /\ Table(x.kind)[x.index + 1] = <<x.column, x.at>>

\* Two pairs of one kind were queried, the second got index 1, and some pair
\* was queried again afterwards.
C2_Witness ==
    /\ \E x \in issued : x.index = 1
    /\ returned.queries > Cardinality(issued)
    /\ permutations # <<>>

(***************************************************************************)
(* Properties of column allocation (specification SpecAlloc)               *)
(***************************************************************************)
\* The columns a sequence of allocations of one kind returned carry the
\* indices 0, 1, 2, ... in the order of the calls.
Sequential(cols, kind) ==
    \A i \in 1 .. Len(cols) : cols[i] = Column(i - 1, kind)

\* The indices of a list of columns increase along the list.
Increasing(cols) ==
    \A i, j \in 1 .. Len(cols) : i < j => cols[i].index < cols[j].index

\* C3: advice_column, fixed_column and instance_column return the column
\* whose index is the number of columns of that kind allocated before and
\* add one to that kind's count only; selector() allocates one fixed column.
\* After any allocations the indices of a kind are 0..n-1 without gap or
\* repeat and num_<kind>_columns is the number of allocations of the kind.
C3_SequentialAllocation ==
    /\ num_advice_columns = Len(allocated.Advice)
    /\ Sequential(allocated.Advice, "Advice")
    /\ num_instance_columns = Len(allocated.Instance)
    /\ Sequential(allocated.Instance, "Instance")
    /\ num_fixed_columns = Len(allocated.Fixed) + Len(allocated.Selector)
    /\ \A c \in Range(allocated.Fixed) \cup Range(allocated.Selector) :
          c.column_type = "Fixed"
    /\ Increasing(allocated.Fixed)
    /\ Increasing(allocated.Selector)
    /\ {c.index : c \in Range(allocated.Fixed)}
          \cap {c.index : c \in Range(allocated.Selector)} = {}
    /\ {c.index : c \in Range(allocated.Fixed) \cup Range(allocated.Selector)}
          = 0 .. (num_fixed_columns - 1)

\* Interleaved allocations of every kind: a selector took a fixed index
\* between two fixed columns.
C3_Witness ==
    /\ Len(allocated.Fixed) = 2
    /\ Len(allocated.Selector) = 1
    /\ allocated.Selector[1].index = 1
    /\ allocated.Fixed[2].index = 2
    /\ num_advice_columns = 1
    /\ num_instance_columns = 1

(***************************************************************************)
(* Properties of the column ordering (specification SpecColumn)            *)
(***************************************************************************)
\* Position of a column type in the order Advice < Instance < Fixed.
KindRank(t) ==
    CASE t = "Advice" -> 0
      [] t = "Instance" -> 1
      [] t = "Fixed" -> 2

\* C4: cmp is a total order on columns: exactly one of a<b, a=b, b<a holds,
\* the order is antisymmetric and transitive, Advice columns come before
\* Instance columns and Instance columns before Fixed columns, columns of
\* one kind compare by index, and cmp returns Equal exactly when kind and
\* index are equal.
C4_ColumnTotalOrder ==
    ord.done =>
        /\ ord.ab \in {"Less", "Equal", "Greater"}
        /\ (ord.ab = "Less") <=> (ord.ba = "Greater")
        /\ (ord.ab = "Greater") <=> (ord.ba = "Less")
        /\ (ord.ab = "Equal") <=> (ord.ba = "Equal")
        /\ (ord.ab = "Equal") <=> (ca = cb)
        /\ (ord.ab = "Equal") <=> ord.eq_ab
        /\ (ord.ab = "Less" /\ ord.bc = "Less") => ord.ac = "Less"
        /\ (ord.ab # "Greater" /\ ord.bc # "Greater") => ord.ac # "Greater"
        /\ KindRank(ca.column_type) < KindRank(cb.column_type)
              => ord.ab = "Less"
        /\ (ca.column_type = cb.column_type /\ ca.index < cb.index)
              => ord.ab = "Less"

\* A chain through the three kinds: an Advice column, an Instance column of
\* smaller index and a Fixed column of smaller index again.
C4_Witness ==
    /\ ord.done
    /\ ca = Column(2, "Advice")
    /\ cb = Column(1, "Instance")
    /\ cc = Column(0, "Fixed")
    /\ ord.ab = "Less"
    /\ ord.bc = "Less"
    /\ ord.ac = "Less"

(***************************************************************************)
(* Properties of create_gate (specification Spec)                          *)
(***************************************************************************)
\* The calls of create_gate whose closure returned at least one constraint.
Constrained ==
    {i \in 1 .. Len(returned.create_gate) : returned.create_gate[i] > 0}

\* C5: a create_gate whose closure returns no constraint panics and appends
\* no gate; the gates are exactly the calls that returned at least one
\* constraint, one gate each, and configuration stops at the panic.
C5_EmptyGatePanics ==
    /\ Len(gates) = Cardinality(Constrained)
    /\ panicked <=>
          \E i \in 1 .. Len(returned.create_gate) : returned.create_gate[i] = 0
    /\ \A i \in 1 .. Len(returned.create_gate) :
          returned.create_gate[i] = 0 => i = Len(returned.create_gate)
    /\ \A k \in 1 .. Len(gates) : Len(gates[k].polys) > 0

\* A gate was created, then a closure that queried a cell and returned no
\* constraint tripped the assertion: one gate, two calls.
C5_Witness ==
    /\ panicked
    /\ Len(returned.create_gate) = 2
    /\ returned.create_gate[1] > 0
    /\ returned.create_gate[2] = 0
    /\ Len(gates) = 1
    /\ returned.queries >= 2

(***************************************************************************)
(* Properties of Assigned arithmetic (specification SpecAssigned)          *)
(***************************************************************************)
\* A Rational whose denominator is zero.
ZeroDenominator(a) == a.tag = "Rational" /\ a.denominator = FZero

\* C6: Assigned arithmetic is total: add, sub, mul, neg and invert return
\* an Assigned value for every operands, Rationals with a zero denominator
\* included, and evaluate never fails: it returns the field zero for Zero
\* and for every Rational whose denominator is zero.
C6_AssignedTotal ==
    /\ aop # "none" => ares \in AssignedValues
    /\ \A a \in {lhs, rhs, ares} :
          /\ ~AssignedEvaluate(a).panicked
          /\ AssignedEvaluate(a).value \in F
          /\ (a.tag = "Zero" \/ ZeroDenominator(a))
                => AssignedEvaluate(a).value = FZero
    /\ aval.done =>
          /\ ~aval.out.panicked
          /\ aval.out.value \in F
          /\ (aval.of.tag = "Zero" \/ ZeroDenominator(aval.of))
                => aval.out.value = FZero

\* Inverting the trivial zero gave a Rational with a nonzero numerator over
\* a zero denominator, and evaluate returned zero for it.
C6_Witness ==
    /\ aop = "invert"
    /\ lhs = Trivial(FZero)
    /\ ares = Rational(FOne, FZero)
    /\ aval.done
    /\ aval.out = Returned(FZero)

\* The value of an operand whose denominator, if it has one, is nonzero.
Proper(a) == a.tag = "Rational" => a.denominator # FZero

\* C7: evaluate(a + b) = evaluate(a) + evaluate(b) in the field for all
\* Rationals a and b with nonzero denominators, and also when either
\* operand is Zero or Trivial.
C7_AddEvaluates ==
    (aop = "add" /\ Proper(lhs) /\ Proper(rhs))
        => /\ AssignedEvaluate(ares).value
                = FAdd(AssignedEvaluate(lhs).value, AssignedEvaluate(rhs).value)
           /\ aval.done =>
                aval.out.value
                    = FAdd(AssignedEvaluate(lhs).value,
                           AssignedEvaluate(rhs).value)

\* Two Rationals over different denominators, neither zero nor one, were
\* added and the sum evaluated to a nonzero field element.
C7_Witness ==
    /\ aop = "add"
    /\ lhs.tag = "Rational"
    /\ rhs.tag = "Rational"
    /\ lhs.denominator \notin {FZero, FOne}
    /\ rhs.denominator \notin {FZero, FOne}
    /\ lhs.denominator # rhs.denominator
    /\ lhs.numerator # FZero
    /\ rhs.numerator # FZero
    /\ aval.done
    /\ aval.out.value # FZero

(***************************************************************************)
(* Properties of the degree (specification Spec)                           *)
(***************************************************************************)
\* Largest required degree over the permutation arguments, 1 for none.
PermutationPart ==
    IF permutations = <<>>
    THEN 1
    ELSE SetMax({PermutationRequiredDegree(permutations[i]) :
                    i \in 1 .. Len(permutations)})

\* Largest required degree over the lookup arguments, 1 for none.
LookupPart ==
    IF lookups = <<>>
    THEN 1
    ELSE SetMax({LookupRequiredDegree(lookups[i]) : i \in 1 .. Len(lookups)})

\* Largest degree of a gate polynomial, 0 for none.
GatePart ==
    LET degrees ==
            UNION {{ExpressionDegree(gates[i].polys[j]) :
                        j \in 1 .. Len(gates[i].polys)} : i \in 1 .. Len(gates)}
    IN  IF degrees = {} THEN 0 ELSE SetMax(degrees)

\* C8: degree() is the maximum of the largest required degree of a
\* permutation argument (1 for none), the largest required degree of a
\* lookup argument (1 for none) and the largest degree of a gate polynomial
\* (0 for none); it is at least 1, and no call that adds a gate, a lookup or
\* a permutation makes it smaller.
C8_Degree ==
    /\ ConstraintSystemDegree(Self)
          = SetMax({PermutationPart, LookupPart, GatePart})
    /\ ConstraintSystemDegree(Self) >= 1
    /\ ConstraintSystemDegree(Self) >= returned.degree_before

\* A gate of degree 2, then a lookup that raises the degree from 2 to 4.
C8_Witness ==
    /\ returned.degree_before = 2
    /\ Len(gates) = 1
    /\ Len(lookups) = 1
    /\ GatePart = 2
    /\ LookupPart = 4
    /\ ConstraintSystemDegree(Self) = 4

(***************************************************************************)
(* Properties of expressions (specification SpecExpr)                      *)
(***************************************************************************)
RECURSIVE Subterms(_)
\* The nodes of a tree, the tree itself included.
Subterms(e) ==
    {e} \cup (CASE e.tag \in {"Sum", "Product"} ->
                        Subterms(e.a) \cup Subterms(e.b)
                [] e.tag = "Scaled" -> Subterms(e.a)
                [] OTHER -> {})

\* C9: Expression::degree is structural: 0 for a Constant, 1 for a Fixed,
\* Advice or Instance query, the larger of the children's degrees for a Sum,
\* their sum for a Product and the child's degree for Scaled; negation and
\* subtraction give no more than the larger degree of their operands, and
\* square() doubles the degree.
C9_DegreeStructural ==
    /\ \A e \in Subterms(expr) :
          /\ e.tag = "Constant" => ExpressionDegree(e) = 0
          /\ e.tag \in {"Fixed", "Advice", "Instance"} => ExpressionDegree(e) = 1
          /\ e.tag = "Sum" =>
                /\ ExpressionDegree(e) >= ExpressionDegree(e.a)
                /\ ExpressionDegree(e) >= ExpressionDegree(e.b)
                /\ ExpressionDegree(e)
                      \in {ExpressionDegree(e.a), ExpressionDegree(e.b)}
          /\ e.tag = "Product" =>
                ExpressionDegree(e) = ExpressionDegree(e.a) + ExpressionDegree(e.b)
          /\ e.tag = "Scaled" => ExpressionDegree(e) = ExpressionDegree(e.a)
    /\ eop.op = "neg" => ExpressionDegree(expr) <= ExpressionDegree(eop.a)
    /\ eop.op = "sub" =>
          \/ ExpressionDegree(expr) <= ExpressionDegree(eop.a)
          \/ ExpressionDegree(expr) <= ExpressionDegree(eop.b)
    /\ eop.op = "square" => ExpressionDegree(expr) = 2 * ExpressionDegree(eop.a)

\* The difference of two queries, of degree 1, was squared: degree 2, over a
\* tree that holds Sum, Scaled and Product nodes.
C9_Witness ==
    /\ eop.op = "square"
    /\ eop.a.tag = "Sum"
    /\ eop.a.b.tag = "Scaled"
    /\ ExpressionDegree(eop.a) = 1
    /\ ExpressionDegree(expr) = 2

RECURSIVE Denotes(_, _, _)
\* The value at point r of the polynomial a tree denotes, the queries taking
\* the column values of env.
Denotes(e, env, r) ==
    CASE e.tag = "Constant" -> e.scalar
      [] e.tag = "Fixed" -> env.fixed[e.index + 1][r]
      [] e.tag = "Advice" -> env.advice[e.index + 1][r]
      [] e.tag = "Instance" -> env.instance[e.index + 1][r]
      [] e.tag = "Sum" -> (Denotes(e.a, env, r) + Denotes(e.b, env, r)) % P
      [] e.tag = "Product" -> (Denotes(e.a, env, r) * Denotes(e.b, env, r)) % P
      [] e.tag = "Scaled" -> (Denotes(e.a, env, r) * e.f) % P

RECURSIVE NodeCount(_, _)
\* The number of nodes of a tree that carry the tag.
NodeCount(e, tag) ==
    (IF e.tag = tag THEN 1 ELSE 0)
        + (CASE e.tag \in {"Sum", "Product"} ->
                    NodeCount(e.a, tag) + NodeCount(e.b, tag)
             [] e.tag = "Scaled" -> NodeCount(e.a, tag)
             [] OTHER -> 0)

\* The variant of the tree each closure of evaluate serves.
TagOf(closure) ==
    CASE closure = "constant" -> "Constant"
      [] closure = "fixed_column" -> "Fixed"
      [] closure = "advice_column" -> "Advice"
      [] closure = "instance_column" -> "Instance"
      [] closure = "sum" -> "Sum"
      [] closure = "product" -> "Product"
      [] closure = "scaled" -> "Scaled"

\* C10: Expression::evaluate is a structural fold: with the field-valued
\* closures it returns the value of the polynomial the tree denotes over the
\* given column values, which is also the value of the polynomial the
\* prover's closures build, at every point; and it applies each leaf closure
\* once per leaf of its variant and each node closure once per node.
C10_EvaluateFolds ==
    ev.done =>
        /\ \A r \in Rows : ev.scalars[r] = Denotes(expr, ev.env, r)
        /\ \A r \in Rows : ev.poly[r] = ev.scalars[r]
        /\ \A c \in ClosureNames : ev.calls[c] = NodeCount(expr, TagOf(c))

\* (advice 0 - fixed 0) * advice 1 was folded: five closures ran, six calls,
\* and the value is not zero everywhere.
C10_Witness ==
    /\ ev.done
    /\ expr = Product(Sum(ExprAdvice(0), Scaled(ExprFixed(0), FNeg(FOne))),
                      ExprAdvice(1))
    /\ ev.calls = [c \in ClosureNames |->
                     CASE c = "advice_column" -> 2
                       [] c = "constant" -> 0
                       [] c = "instance_column" -> 0
                       [] OTHER -> 1]
    /\ \E r \in Rows : ev.scalars[r] # FZero
    /\ \A r \in Rows :
          ev.poly[r]
              = FMul(FSub(ev.env.advice[1][r], ev.env.fixed[1][r]),
                     ev.env.advice[2][r])

(***************************************************************************)
(* Properties of regions and layouters (specification SpecV1)              *)
(***************************************************************************)
\* The calls made on a Region that carry a value producer.
Assigning == {"assign_advice", "assign_fixed"}

\* C11: during one call of Region::assign_advice or Region::assign_fixed the
\* value producer handed to it is run at most once, in the measurement pass
\* and in the assignment pass over the witness sink alike.
C11_ProducerAtMostOnce ==
    \A i \in 1 .. Len(region_calls) :
        region_calls[i].op \in Assigning => region_calls[i].to_calls <= 1

\* An assign_advice that ran its producer and stored the value, after an
\* assign_fixed and a measured call that ran none.
C11_Witness ==
    /\ \E i \in 1 .. Len(region_calls) :
        /\ region_calls[i].pass = "assignment"
        /\ region_calls[i].op = "assign_advice"
        /\ region_calls[i].to_calls = 1
        /\ region_calls[i].result.ok
    /\ \E i \in 1 .. Len(region_calls) :
        /\ region_calls[i].pass = "assignment"
        /\ region_calls[i].op = "assign_fixed"
        /\ region_calls[i].to_calls = 0
    /\ \E i \in 1 .. Len(region_calls) :
        /\ region_calls[i].pass = "measurement"
        /\ region_calls[i].op = "assign_advice"
        /\ region_calls[i].to_calls = 0

\* The columns of the permutation handed to constrain_equal.
PermutationColumns == Range(PermutationA.mapping)

\* C12: Region::constrain_equal(permutation, left, right) returns an error
\* whenever the column of left or of right is not a column of the
\* permutation; no equality is accepted for such cells.
C12_ConstrainEqualChecksColumns ==
    \A i \in 1 .. Len(region_calls) :
        (/\ region_calls[i].op = "constrain_equal"
         /\ region_calls[i].pass = "assignment"
         /\ region_calls[i].at > 0)
            => LET copied == sink[region_calls[i].at]
               IN  (\/ copied.column \notin PermutationColumns
                    \/ copied.right_column \notin PermutationColumns)
                        => ~region_calls[i].result.ok

\* The namespace calls the circuit has made: all of the measurement pass
\* and those of the assignment pass so far.
NamespaceCalls(s) == Cardinality({i \in 1 .. Len(s) : s[i].call = "namespace"})

NamespaceCallsMade ==
    IF "assignment" \in Range(ran)
    THEN NamespaceCalls(script) + NamespaceCalls(SubSeq(script, 1, pc))
    ELSE NamespaceCalls(script)

\* C13: every Layouter::namespace call makes one push_namespace on the root
\* layouter and every release of a guard one pop_namespace, so the pops
\* never exceed the pushes, the depth pushes - pops is the number of live
\* guards, and pushes equal pops once Circuit::synthesize has returned, with
\* Ok or with an early error.
C13_NamespacesNest ==
    /\ root.pushes = NamespaceCallsMade
    /\ root.pops <= root.pushes
    /\ root.pushes - root.pops = Len(guards)
    /\ pass \in {"placement", "returned"} => root.pushes = root.pops

\* Synthesis returned an error while two namespaces were open and none had
\* been released before.
C13_Witness ==
    /\ pass = "returned"
    /\ ~result.ok
    /\ NamespaceCalls(script) >= 2
    /\ \A i \in 1 .. Len(script) : script[i].call # "drop"
    /\ root.pops = root.pushes

\* The calls the circuit has made in the pass it is in or was in last.
CallsMade ==
    IF "assignment" \in Range(ran) THEN SubSeq(script, 1, pc) ELSE script

AssignRegionCalls(s) ==
    Cardinality({i \in 1 .. Len(s) : s[i].call = "assign_region"})

\* C14: push_namespace and pop_namespace called on a NamespacedLayouter
\* panic; namespace and assign_region called on a NamespacedLayouter, at any
\* depth, never do: they reach the root layouter, which pushes on the sink's
\* behalf or runs the region.
C14_OnlyDirectCallsPanic ==
    LET made == CallsMade
        last == made[Len(made)]
    IN  /\ pass = "panicked"
            => made # <<>> /\ last.call \in {"push_namespace", "pop_namespace"}
        /\ (made # <<>> /\ last.call \in {"push_namespace", "pop_namespace"})
            => pass = "panicked"
        /\ pass # "panicked" =>
            /\ Len(given.measurement) + Len(given.assignment)
                    = (IF "assignment" \in Range(ran)
                       THEN AssignRegionCalls(script) ELSE 0)
                        + AssignRegionCalls(made)
            /\ root.pushes = NamespaceCallsMade

\* A region was assigned through a NamespacedLayouter made from another
\* one, and then push_namespace called on it panicked.
C14_Witness ==
    /\ pass = "panicked"
    /\ Len(script) >= 4
    /\ script[1].call = "namespace"
    /\ script[2].call = "namespace"
    /\ script[3].call = "assign_region"
    /\ script[4].call = "push_namespace"
    /\ Len(given.measurement) = 1

\* The calls made on a V1Region that reached the sink.
Forwarded ==
    {i \in 1 .. Len(region_calls) :
        /\ region_calls[i].pass = "assignment"
        /\ region_calls[i].op \in Assigning \cup {"enable_selector"}
        /\ region_calls[i].at > 0}

\* C17: in the assignment pass enable_selector, assign_advice and
\* assign_fixed at relative offset o in region r reach the sink as the same
\* call on the same selector or column at absolute row RegionStart(r) + o,
\* and the Cell an assignment returns holds r, the relative offset o and the
\* column.
C17_AbsoluteRows ==
    \A i \in Forwarded :
        LET call == region_calls[i]
            got == sink[call.at]
        IN  /\ got.call = call.op
            /\ got.column = call.column
            /\ got.row = plan[call.region + 1] + call.offset
            /\ (call.op \in Assigning /\ call.result.ok)
                => call.cell = Cell(call.region, call.offset, call.column)

\* A fixed cell assigned in a region that starts after row 0, and an advice
\* cell assigned at an offset above 0.
C17_Witness ==
    /\ \E i \in Forwarded :
        /\ region_calls[i].op = "assign_fixed"
        /\ plan[region_calls[i].region + 1] > 0
        /\ region_calls[i].result.ok
    /\ \E i \in Forwarded :
        /\ region_calls[i].op = "assign_advice"
        /\ region_calls[i].offset > 0
        /\ region_calls[i].result.ok

\* The number of calls named call among the first n the sink received.
Received(call, n) == Cardinality({i \in 1 .. n : sink[i].call = call})

\* The regions open after the first n calls the sink received.
OpenRegions(n) == Received("enter_region", n) - Received("exit_region", n)

FailedCalls ==
    {i \in 1 .. Len(region_calls) :
        region_calls[i].pass = "assignment" /\ ~region_calls[i].result.ok}

\* What the closure of the assign_region call c returned in the assignment
\* pass: the error of the call that failed in it, else its own result.
AssignedResult(c) ==
    IF FailedCalls = {}
    THEN c.closure.returns
    ELSE region_calls[CHOOSE i \in FailedCalls : TRUE].result

IsAssignRegion(c) == c.call = "assign_region"

\* The closures of the circuit's assign_region calls, in call order.
RegionScript == SelectSeq(script, IsAssignRegion)

\* The closures of the first n assign_region calls returned Ok in the
\* measurement pass.
MeasuredOk(n) == \A k \in 1 .. n : RegionScript[k].closure.returns.ok

Placed == pass = "assignment"

Regions == 1 .. Len(measure)

\* The cells region i covers under the plan.
Covers(i) == Occupied(measure[i], plan[i])

\* C15: whatever the list of measured shapes, under the computed placement
\* no cell (column, absolute row) is covered by two distinct regions: in
\* every column the row ranges of the regions that touch it are disjoint.
C15_CollisionFree ==
    Placed =>
        /\ Len(plan) = Len(measure)
        /\ \A i \in Regions : \A j \in Regions :
                i # j => Covers(i) \cap Covers(j) = {}

\* Three regions that touch one column, the last of them placed first.
C15_Witness ==
    /\ Placed
    /\ Len(measure) = 3
    /\ \A i \in Regions : AdviceA \in measure[i].columns
    /\ plan[3] = 0
    /\ plan[1] > plan[2]

\* Region j is placed before region i: greater advice area, or the same
\* area and called earlier.
PlacedBefore(j, i) ==
    \/ AdviceArea(measure[j]) > AdviceArea(measure[i])
    \/ AdviceArea(measure[j]) = AdviceArea(measure[i]) /\ j < i

\* The cells covered by the regions placed before region i.
CoveredBefore(i) == UNION {Covers(j) : j \in {k \in Regions : PlacedBefore(k, i)}}

Mismatched ==
    \E i \in 1 .. Len(instances) : instances[i] # pk.vk.cs.num_instance_columns

\* C21: when some instance set has a number of columns other than
\* num_instance_columns, create_proof returns IncompatibleParams, and it
\* does so with no operation made on the transcript, no call of configure
\* and no circuit synthesized.
C21_MismatchReturnsFirst ==
    /\ (Mismatched /\ step.at # "validate") =>
            /\ step.at = "returned"
            /\ proof = Err("IncompatibleParams")
    /\ proof = Err("IncompatibleParams") =>
            /\ Mismatched
            /\ transcript = <<>>
            /\ configured = 0
            /\ synthesized = <<>>

\* create_proof has returned IncompatibleParams for two instance sets of
\* which the first has the right number of columns and the second has not,
\* with a circuit to prove.
C21_Witness ==
    /\ step.at = "returned"
    /\ proof = Err("IncompatibleParams")
    /\ Len(instances) = 2
    /\ instances[1] = pk.vk.cs.num_instance_columns
    /\ instances[2] # pk.vk.cs.num_instance_columns
    /\ circuits > 0

\* The place of an operation in the order of the commit phase; what comes
\* after challenge x is last.
CommitRank(what) ==
    CASE what = "verifying_key" -> 1
      [] what = "instance_commitment" -> 2
      [] what = "advice_commitment" -> 3
      [] what = "theta" -> 4
      [] what \in {"permuted_input_commitment", "permuted_table_commitment"} -> 5
      [] what = "beta" -> 6
      [] what = "gamma" -> 7
      [] what = "permutation_product_commitment" -> 8
      [] what = "lookup_product_commitment" -> 9
      [] what = "y" -> 10
      [] what = "vanishing_commitments" -> 11
      [] what = "x" -> 12
      [] OTHER -> 13

\* The positions of the transcript that hold an operation of the kind.
Holding(what) == {j \in 1 .. Len(transcript) : transcript[j].what = what}

\* The objects (set and index) of the operations of the kind.
ObjectsOf(what) ==
    {<<transcript[j].set, transcript[j].index>> : j \in Holding(what)}

\* One operation of the kind for each of the objects, and no other.
OncePer(what, objects) ==
    /\ ObjectsOf(what) = objects
    /\ Cardinality(Holding(what)) = Cardinality(objects)

Challenges == {"theta", "beta", "gamma", "y", "x"}

InstanceColumnsOf == {<<s, c>> : s \in 1 .. Len(instances),
                                c \in 0 .. (MaxInstanceLen + 1)}

\* C22: in a run of create_proof that succeeds the transcript receives,
\* in this order: the hash of the verifying key; the commitment of every
\* column of every instance set, as a common point and never written; the
\* commitment of every advice column of every circuit, written; challenge
\* theta; for every lookup the commitment of its permuted input followed by
\* that of its permuted table; challenge beta; challenge gamma; the product
\* commitment of every permutation; the product commitment of every lookup;
\* challenge y; the commitments of the vanishing argument; challenge x.
\* Each challenge is squeezed once, after everything listed ahead of it.
C22_CommitOrder ==
    proof = Ok =>
        /\ \A j \in 1 .. Len(transcript) : transcript[j].ok
        /\ \A j, k \in 1 .. Len(transcript) :
                j < k => CommitRank(transcript[j].what)
                            <= CommitRank(transcript[k].what)
        /\ OncePer("verifying_key", {<<0, 0>>})
        /\ OncePer("instance_commitment",
                   {o \in InstanceColumnsOf : o[2] < instances[o[1]]})
        /\ OncePer("advice_commitment",
                   (1 .. circuits) \X (0 .. (pk.vk.cs.num_advice_columns - 1)))
        /\ OncePer("permuted_input_commitment",
                   Zipped \X (0 .. (Len(pk.vk.cs.lookups) - 1)))
        /\ \A j \in Holding("permuted_input_commitment") :
                /\ j < Len(transcript)
                /\ transcript[j + 1] =
                        [transcript[j] EXCEPT
                            !.what = "permuted_table_commitment"]
        /\ Cardinality(Holding("permuted_table_commitment"))
                = Cardinality(Holding("permuted_input_commitment"))
        /\ OncePer("permutation_product_commitment",
                   Zipped \X (0 .. (Len(pk.vk.cs.permutations) - 1)))
        /\ OncePer("lookup_product_commitment",
                   Zipped \X (0 .. (Len(pk.vk.cs.lookups) - 1)))
        /\ OncePer("vanishing_commitments", {<<0, 0>>})
        /\ \A c \in Challenges : OncePer(c, {<<0, 0>>})
        /\ \A j \in 1 .. Len(transcript) :
                /\ transcript[j].what \in Challenges
                        <=> transcript[j].op = "squeeze_challenge_scalar"
                /\ transcript[j].what = "instance_commitment"
                        <=> transcript[j].op = "common_point"
                /\ CommitRank(transcript[j].what) \in {3, 5, 8, 9, 11}
                        => transcript[j].op = "write_point"

\* A proof was made of two circuits with their two instance sets, for a
\* circuit type with a lookup and a permutation.
C22_Witness ==
    /\ proof = Ok
    /\ Len(instances) = 2
    /\ circuits = 2
    /\ pk.vk.cs.lookups # <<>>
    /\ pk.vk.cs.permutations # <<>>

\* The run has ended with an error.
ReturnedError == step.at = "returned" /\ proof \notin {Ok, Pending}

\* The first step that fails ends the run with an error: a refused
\* transcript operation is the last operation made, a circuit whose
\* synthesis fails is the last one synthesized and nothing of it or after
\* it reaches the transcript, and a proof is only returned when nothing
\* failed.
FirstFailureEnds ==
    /\ \A j \in 1 .. Len(transcript) :
            ~transcript[j].ok => j = Len(transcript) /\ ReturnedError
    /\ \A i \in 1 .. Len(synthesized) :
            ~synthesized[i].ok =>
                /\ i = Len(synthesized)
                /\ ReturnedError
                /\ \A j \in 1 .. Len(transcript) :
                        /\ transcript[j].ok
                        /\ CommitRank(transcript[j].what) <= 3
                        /\ transcript[j].what = "advice_commitment"
                                => transcript[j].set < i
    /\ opening \notin {"none", "written"} => ReturnedError
    /\ proof = Ok =>
            /\ \A j \in 1 .. Len(transcript) : transcript[j].ok
            /\ \A i \in 1 .. Len(synthesized) : synthesized[i].ok
            /\ Len(synthesized) = circuits
            /\ opening = "written"

\* The error by kind of failure.
FailureKinds ==
    /\ \A j \in 1 .. Len(transcript) :
            ~transcript[j].ok => proof = Err("TranscriptError")
    /\ \A i \in 1 .. Len(synthesized) :
            ~synthesized[i].ok => proof = synthesized[i]
    /\ opening = "not_built" => proof = Err("OpeningError")

\* C23: create_proof ends at the first step that fails, with an error and
\* no transcript operation after it; a transcript operation that fails
\* gives TranscriptError, a synthesis that fails gives the error it
\* returned, and an opening proof that cannot be built gives OpeningError.
C23_NeverSwallows == FirstFailureEnds /\ FailureKinds

\* The place of an operation in the order of the evaluation phase.
EvalRank(what) ==
    CASE what = "instance_eval" -> 1
      [] what = "advice_eval" -> 2
      [] what = "fixed_eval" -> 3
      [] what = "vanishing_evals" -> 4
      [] what \in {"permutation_product_eval",
                   "permutation_product_inv_eval"} -> 5
      [] what \in {"product_eval", "product_inv_eval", "permuted_input_eval",
                   "permuted_input_inv_eval", "permuted_table_eval"} -> 6
      [] what = "opening_proof" -> 7
      [] OTHER -> 0

\* The position at which challenge x was squeezed.
AtX == CHOOSE j \in 1 .. Len(transcript) : transcript[j].what = "x"

\* From position base on, the transcript holds the evaluations of the
\* queries of the table for each of n sets: set by set, and within a set
\* in the order of the table, each of the column and rotation of its query.
EvalBlock(base, what, n, table) ==
    \A s \in 1 .. n : \A q \in 1 .. Len(table) :
        LET j == base + (s - 1) * Len(table) + q
        IN  /\ j <= Len(transcript)
            /\ transcript[j].op = "write_scalar"
            /\ transcript[j].what = what
            /\ transcript[j].set = (IF what = "fixed_eval" THEN 0 ELSE s)
            /\ transcript[j].index = q - 1
            /\ transcript[j].column = table[q][1].index
            /\ transcript[j].rotation = table[q][2]

\* C28: in a run of create_proof that succeeds, what follows challenge x
\* in the transcript is, in this order: the evaluations of the instance
\* queries for every instance set, in the order of the query table; those
\* of the advice queries for every circuit; those of the fixed queries,
\* once; the evaluations of the vanishing argument; those of the
\* permutations; those of the lookups; and last the opening proof.  No
\* challenge is squeezed after x.
C28_EvaluationOrder ==
    proof = Ok =>
        LET cs == pk.vk.cs
            advice_base == AtX + Len(instances) * Len(cs.instance_queries)
            fixed_base == advice_base + circuits * Len(cs.advice_queries)
            pairs == Cardinality(Zipped)
        IN  /\ \A j \in (AtX + 1) .. Len(transcript) :
                    /\ EvalRank(transcript[j].what) > 0
                    /\ transcript[j].op # "squeeze_challenge_scalar"
                    /\ \A k \in (j + 1) .. Len(transcript) :
                            EvalRank(transcript[j].what)
                                <= EvalRank(transcript[k].what)
            /\ EvalBlock(AtX, "instance_eval", Len(instances),
                         cs.instance_queries)
            /\ EvalBlock(advice_base, "advice_eval", circuits,
                         cs.advice_queries)
            /\ EvalBlock(fixed_base, "fixed_eval", 1, cs.fixed_queries)
            /\ transcript[fixed_base + Len(cs.fixed_queries) + 1].what
                    = "vanishing_evals"
            /\ OncePer("vanishing_evals", {<<0, 0>>})
            /\ \A w \in {"permutation_product_eval",
                          "permutation_product_inv_eval"} :
                    OncePer(w, Zipped \X (0 .. (Len(cs.permutations) - 1)))
            /\ \A w \in {"product_eval", "product_inv_eval",
                          "permuted_input_eval", "permuted_input_inv_eval",
                          "permuted_table_eval"} :
                    OncePer(w, Zipped \X (0 .. (Len(cs.lookups) - 1)))
            /\ OncePer("opening_proof", {<<0, 0>>})
            /\ transcript[Len(transcript)].what = "opening_proof"
            /\ Len(transcript) =
                    fixed_base + Len(cs.fixed_queries) + 1
                        + 2 * pairs * Len(cs.permutations)
                        + 5 * pairs * Len(cs.lookups) + 1

\* A proof was made of two circuits with their two instance sets, for a
\* circuit type with two instance queries and two lookups.
C28_Witness ==
    /\ proof = Ok
    /\ Len(instances) = 2
    /\ circuits = 2
    /\ Len(pk.vk.cs.instance_queries) = 2
    /\ Len(pk.vk.cs.lookups) = 2

(***************************************************************************)
(* Properties of Evaluated::expressions (specification SpecExpressions)    *)
(***************************************************************************)
\* The values of the expressions of a list on the evaluations handed in.
ValuesAtX(list, evals) ==
    [i \in 1 .. Len(list) |->
        Evaluate(list[i],
                 FieldInterp(evals.fixed_evals, evals.advice_evals,
                             evals.instance_evals))]

RECURSIVE Power(_, _)
Power(b, n) == IF n = 0 THEN 1 % P ELSE (b * Power(b, n - 1)) % P

RECURSIVE PowerSum(_, _, _)
\* theta^(m-i) e_i + ... + theta e_(m-1) + e_m for the values e_1 .. e_m
PowerSum(es, theta, i) ==
    IF i > Len(es)
    THEN 0
    ELSE (Power(theta, Len(es) - i) * es[i] + PowerSum(es, theta, i + 1)) % P

\* Residue of an integer, which may be negative, in 0 .. P-1.
Residue(n) == ((n % P) + P) % P

\* C24: expressions yields exactly four values, in this order:
\* l_0 (1 - Z'(x)); Z'(x) (A'(x) + beta) (S'(x) + gamma) - Z'(w^-1 x)
\* (compressed input + beta) (compressed table + gamma); l_0 (A'(x) - S'(x));
\* (A'(x) - S'(x)) (A'(x) - A'(w^-1 x)); and each is zero exactly when the
\* identity it stands for holds at x.
C24_FourExpressions ==
    lookup_out.called = "expressions" =>
        LET e == lookup_out.expressions
            i == lookup_in
            Z == lk.value.product_eval
            Zinv == lk.value.product_inv_eval
            A == lk.value.permuted_input_eval
            Ainv == lk.value.permuted_input_inv_eval
            S == lk.value.permuted_table_eval
            ci == PowerSum(ValuesAtX(i.argument.input_expressions, i.evals),
                           i.theta, 1)
            ct == PowerSum(ValuesAtX(i.argument.table_expressions, i.evals),
                           i.theta, 1)
            zleft == Residue(Z * (A + i.beta) * (S + i.gamma))
            zright == Residue(Zinv * (ci + i.beta) * (ct + i.gamma))
        IN  /\ Len(e) = 4
            /\ e[1] = Residue(i.l_0 * (1 - Z))
            /\ e[2] = Residue(zleft - zright)
            /\ e[3] = Residue(i.l_0 * (A - S))
            /\ e[4] = Residue((A - S) * (A - Ainv))
            /\ (e[1] = FZero) <=> (i.l_0 = FZero \/ Z = FOne)
            /\ (e[2] = FZero) <=> (zleft = zright)
            /\ (e[3] = FZero) <=> (i.l_0 = FZero \/ A = S)
            /\ (e[4] = FZero) <=> (A = S \/ A = Ainv)

\* expressions was called on three pairs of expressions, with a product
\* that is not zero at either point: the second identity holds, the first
\* does not.
C24_Witness ==
    /\ lookup_out.called = "expressions"
    /\ Len(lookup_in.argument.input_expressions) = 3
    /\ lk.value.product_eval # FZero
    /\ lk.value.product_inv_eval # FZero
    /\ lookup_in.beta # FZero
    /\ lookup_in.gamma # FZero
    /\ lookup_out.compressed_input # lookup_out.compressed_table
    /\ lookup_out.expressions[2] = FZero
    /\ lookup_out.expressions[1] # FZero

\* C30: the compressed value of a list e_0 .. e_(m-1) is
\* theta^(m-1) e_0 + ... + theta e_(m-2) + e_(m-1): zero for the empty
\* list, e_0 for a single expression, and formed the same way for the input
\* list and the table list.
C30_Compression ==
    lookup_out.called = "expressions" =>
        LET a == ValuesAtX(lookup_in.argument.input_expressions,
                           lookup_in.evals)
            s == ValuesAtX(lookup_in.argument.table_expressions,
                           lookup_in.evals)
        IN  /\ lookup_out.compressed_input = PowerSum(a, lookup_in.theta, 1)
            /\ lookup_out.compressed_table = PowerSum(s, lookup_in.theta, 1)
            /\ Len(a) = 0 => lookup_out.compressed_input = FZero
            /\ Len(s) = 0 => lookup_out.compressed_table = FZero
            /\ Len(a) = 1 => lookup_out.compressed_input = a[1]
            /\ Len(s) = 1 => lookup_out.compressed_table = s[1]

\* Three expressions were compressed, to different values that are not zero.
C30_Witness ==
    /\ lookup_out.called = "expressions"
    /\ Len(lookup_in.argument.input_expressions) = 3
    /\ lookup_in.theta = 2 % P
    /\ lookup_out.compressed_input # FZero
    /\ lookup_out.compressed_table # FZero
    /\ lookup_out.compressed_input # lookup_out.compressed_table

(***************************************************************************)
(* Properties of the lookup verifier's reads and queries (specification    *)
(* SpecLookupRead)                                                         *)
(***************************************************************************)
\* The reads of the lookup itself, in order.
LookupReads == SelectSeq(reads, LAMBDA r : r.op # "other")

\* The operation the lookup makes as its k-th read.
ReadAt(k) == IF k <= 3 THEN "read_point" ELSE "read_scalar"

\* The number of successful reads a stage value stands for.
ReadsOf(stage) ==
    CASE stage = "Argument" -> 0
      [] stage = "PermutationCommitments" -> 2
      [] stage = "Committed" -> 3
      [] stage = "Evaluated" -> 8

\* C29: the lookup's reads are, in this order, two points (permuted input,
\* permuted table), later one point (product), later five scalars (Z'(x),
\* Z'(w^-1 x), A'(x), A'(w^-1 x), S'(x)); a stage value exists only after
\* all the reads up to it succeeded and holds their values in these
\* fields; a failed read is the last read, and leaves TranscriptError and
\* no stage value.
C29_ReadOrder ==
    LET L == LookupReads
    IN  /\ Len(L) <= 8
        /\ \A k \in 1 .. Len(L) : L[k].op = ReadAt(k)
        /\ \A k \in 1 .. Len(reads) :
             ~reads[k].ok => (k = Len(reads) /\ lk.stage = "Error")
        /\ lk.stage = "Error" =>
             /\ L # <<>>
             /\ ~L[Len(L)].ok
             /\ lk.value = "TranscriptError"
             /\ lookup_out = NotCalled
        /\ lk.stage # "Error" =>
             /\ Len(L) = ReadsOf(lk.stage)
             /\ \A k \in 1 .. Len(L) : L[k].ok
        /\ lk.stage = "PermutationCommitments" =>
             /\ lk.value.permuted_input_commitment = L[1].value
             /\ lk.value.permuted_table_commitment = L[2].value
        /\ lk.stage = "Committed" =>
             /\ lk.value.permuted.permuted_input_commitment = L[1].value
             /\ lk.value.permuted.permuted_table_commitment = L[2].value
             /\ lk.value.product_commitment = L[3].value
        /\ lk.stage = "Evaluated" =>
             /\ lk.value.committed.permuted.permuted_input_commitment
                    = L[1].value
             /\ lk.value.committed.permuted.permuted_table_commitment
                    = L[2].value
             /\ lk.value.committed.product_commitment = L[3].value
             /\ lk.value.product_eval = L[4].value
             /\ lk.value.product_inv_eval = L[5].value
             /\ lk.value.permuted_input_eval = L[6].value
             /\ lk.value.permuted_input_inv_eval = L[7].value
             /\ lk.value.permuted_table_eval = L[8].value

\* All eight reads succeeded, with other reads between the stages, and the
\* scalars read second and third differ.
C29_Witness ==
    /\ lk.stage = "Evaluated"
    /\ Len(reads) = 8 + MaxOtherReads
    /\ reads[3].op = "other"
    /\ reads[5].op = "other"
    /\ lk.value.product_inv_eval # lk.value.permuted_input_eval
    /\ lk.value.committed.permuted.permuted_input_commitment
           # lk.value.committed.permuted.permuted_table_commitment

\* How often each element occurs in a sequence.
Occurrences(seq) ==
    [e \in Range(seq) |-> Cardinality({i \in 1 .. Len(seq) : seq[i] = e})]

\* C25: queries gives exactly five queries: the product commitment at x
\* and at w^-1 x, the permuted input commitment at x and at w^-1 x, the
\* permuted table commitment at x; each with the evaluation read for that
\* polynomial at that point.
C25_FiveQueries ==
    lookup_out.called = "queries" =>
        LET L == LookupReads
            x == lookup_in.x
            x_inv == CHOOSE p \in 0 .. P - 1 :
                        (p * (CHOOSE w \in 1 .. P - 1 :
                                (w * OmegaInv) % P = 1)) % P = x
            Opening(commitment, point, eval) ==
                [point |-> point, commitment |-> L[commitment].value,
                 eval |-> L[eval].value]
        IN  /\ Len(lookup_out.queries) = 5
            /\ Occurrences(lookup_out.queries) =
                 Occurrences(<<Opening(3, x, 4), Opening(3, x_inv, 5),
                               Opening(1, x, 6), Opening(1, x_inv, 7),
                               Opening(2, x, 8)>>)

\* queries was called on an Evaluated of three different commitments whose
\* evaluations at x and at w^-1 x differ, for Z' and for A'.
C25_Witness ==
    /\ lookup_out.called = "queries"
    /\ lk.value.product_eval # lk.value.product_inv_eval
    /\ lk.value.permuted_input_eval # lk.value.permuted_input_inv_eval
    /\ Cardinality({lk.value.committed.product_commitment,
                    lk.value.committed.permuted.permuted_input_commitment,
                    lk.value.committed.permuted.permuted_table_commitment})
         = 3
    /\ OtherReads = MaxOtherReads

(***************************************************************************)
(* Properties of the lookup argument from end to end (specification        *)
(* SpecEndToEnd)                                                           *)
(***************************************************************************)
\* Every expression is zero at every domain point.
AllZero(identities) ==
    \A r \in Rows : \A k \in 1 .. 4 : identities[r][k] = FZero

\* No factor a' + beta or s' + gamma of the supplied polynomials vanishes
\* on the domain.
NoVanishingFactor ==
    \A r \in Rows :
        /\ (lk.value.permuted_input[r] + lookup_in.beta) % P # 0
        /\ (lk.value.permuted_table[r] + lookup_in.gamma) % P # 0

\* C26 as stated: with every input value in the table and the genuine
\* permuted input, permuted table and running product, all four identities
\* are zero at every domain point; with one input value changed to a value
\* not in the table, some identity is not zero at some domain point.
C26_AnyChallenges ==
    /\ lookup_out.called = "genuine" => AllZero(lookup_out.identities)
    /\ lookup_out.called = "mutated" => ~AllZero(lookup_out.identities)

\* C26, amended: the same, for challenges beta and gamma at which no
\* factor a' + beta or s' + gamma vanishes on the domain.
C26_LookupEndToEnd ==
    /\ (lookup_out.called = "genuine" /\ NoVanishingFactor)
            => AllZero(lookup_out.identities)
    /\ (lookup_out.called = "mutated" /\ NoVanishingFactor)
            => ~AllZero(lookup_out.identities)

\* An input of two different values, not in the order of the permuted
\* input, was changed to hold a value outside the table, under challenges
\* with no vanishing factor.
C26_Witness ==
    /\ lookup_out.called = "mutated"
    /\ NoVanishingFactor
    /\ lookup_in.beta # lookup_in.gamma
    /\ lk.value.permuted_input[1] # lk.value.permuted_input[NRows]
    /\ lk.value.permuted_table # lookup_in.table
    /\ \E r \in Rows : lookup_in.input[r] \notin Range(lookup_in.table)
    /\ ~AllZero(lookup_out.identities)

(***************************************************************************)
(* Further properties of Assigned arithmetic (specification SpecAssigned)  *)
(***************************************************************************)
\* C35: evaluate(a * b) = evaluate(a) * evaluate(b) and
\* evaluate(-a) = -evaluate(a) for all operands, those over a zero
\* denominator included.
C35_MulNegEvaluate ==
    /\ aop = "mul" =>
          /\ AssignedEvaluate(ares).value
                = (AssignedEvaluate(lhs).value * AssignedEvaluate(rhs).value) % P
          /\ aval.done =>
                aval.out.value = (AssignedEvaluate(lhs).value
                                    * AssignedEvaluate(rhs).value) % P
    /\ aop = "neg" =>
          /\ (AssignedEvaluate(ares).value + AssignedEvaluate(lhs).value) % P = 0
          /\ aval.done =>
                (aval.out.value + AssignedEvaluate(lhs).value) % P = 0

\* Two Rationals over different denominators, neither zero nor one, were
\* multiplied and the product evaluated to a nonzero field element.
C35_Witness ==
    /\ aop = "mul"
    /\ lhs.tag = "Rational"
    /\ rhs.tag = "Rational"
    /\ lhs.denominator \notin {FZero, FOne}
    /\ rhs.denominator \notin {FZero, FOne}
    /\ lhs.denominator # rhs.denominator
    /\ aval.done
    /\ aval.out.value # FZero

\* C36: when either operand of a + b or a - b is a Rational over a zero
\* denominator, the result is a Rational over a zero denominator and
\* evaluates to zero, whatever the other operand is; so the value of the
\* sum is not the sum of the values when the other operand's is not zero.
C36_ZeroDenominatorAbsorbs ==
    (aop \in {"add", "sub"} /\ (ZeroDenominator(lhs) \/ ZeroDenominator(rhs)))
        => /\ ares.tag = "Rational"
           /\ ares.denominator = FZero
           /\ AssignedEvaluate(ares).value = FZero
           /\ aval.done => aval.out.value = FZero
           /\ (AssignedEvaluate(lhs).value # FZero
                    \/ AssignedEvaluate(rhs).value # FZero)
                => AssignedEvaluate(ares).value
                     # (IF aop = "add"
                        THEN (AssignedEvaluate(lhs).value
                                + AssignedEvaluate(rhs).value) % P
                        ELSE (AssignedEvaluate(lhs).value + P
                                - AssignedEvaluate(rhs).value) % P)

\* A Rational with a nonzero numerator over zero was added to a nonzero
\* Trivial, and the sum evaluated to zero.
C36_Witness ==
    /\ aop = "add"
    /\ ZeroDenominator(lhs)
    /\ lhs.numerator # FZero
    /\ rhs.tag = "Trivial"
    /\ rhs.x # FZero
    /\ aval.done
    /\ aval.out.value = FZero

\* C37: evaluate(a.invert()) * evaluate(a) = 1 when evaluate(a) is not
\* zero, evaluate(a.invert()) = 0 when evaluate(a) is zero, and
\* evaluate(a.invert().invert()) = evaluate(a); invert swaps or places the
\* parts of the value and computes no field inverse.
C37_InvertEvaluates ==
    aop = "invert" =>
        LET value == AssignedEvaluate(lhs).value
            inverse == AssignedEvaluate(ares).value
        IN  /\ value # FZero => (inverse * value) % P = 1
            /\ value = FZero => inverse = FZero
            /\ aval.done => aval.out.value = inverse
            /\ AssignedEvaluate(AssignedInvert(ares)).value = value
            /\ ares.tag = "Rational" =>
                    {ares.numerator, ares.denominator}
                        \subseteq ({FOne} \cup
                                    (IF lhs.tag = "Trivial"
                                     THEN {lhs.x}
                                     ELSE {lhs.numerator, lhs.denominator}))

\* A Rational with numerator and denominator neither zero nor one was
\* inverted and the inverse evaluated.
C37_Witness ==
    /\ aop = "invert"
    /\ lhs.tag = "Rational"
    /\ lhs.numerator \notin {FZero, FOne}
    /\ lhs.denominator \notin {FZero, FOne}
    /\ lhs.numerator # lhs.denominator
    /\ aval.done
    /\ aval.out.value \notin {FZero, FOne}

(***************************************************************************)
(* Properties of permutation and lookup (specification Spec)               *)
(***************************************************************************)
\* C33: permutation(columns) interns every listed column at the current
\* row, appends one argument and returns a handle whose index is the
\* number of permutations registered before and whose mapping is the list
\* as given; lookup appends one argument and returns the number of lookups
\* registered before; neither looks for an equal argument registered
\* earlier.
C33_PermutationLookupAppend ==
    /\ Len(returned.permutation) = Len(permutations)
    /\ \A k \in 1 .. Len(permutations) :
          /\ returned.permutation[k].index = k - 1
          /\ returned.permutation[k].mapping = permutations[k].columns
          /\ \A c \in 1 .. Len(permutations[k].columns) :
                LET column == permutations[k].columns[c]
                IN  Slots(column.column_type, column, 0) # {}
    /\ Len(returned.lookup) = Len(lookups)
    /\ \A k \in 1 .. Len(lookups) : returned.lookup[k] = k - 1

\* One column list was registered twice and gave two arguments, with the
\* indices 0 and 1.
C33_Witness ==
    /\ Len(permutations) = 2
    /\ permutations[1] = permutations[2]
    /\ permutations[1].columns # <<>>
    /\ returned.permutation[1].index = 0
    /\ returned.permutation[2].index = 1

(***************************************************************************)
(* The constraint system only grows (specification Spec)                   *)
(***************************************************************************)
\* The list before is the beginning of the list after.
Extends(before, after) ==
    /\ Len(before) <= Len(after)
    /\ SubSeq(after, 1, Len(before)) = before

\* C38: no configuration call removes or changes a gate, an entry of a
\* query table, a permutation argument or a lookup argument, or lowers a
\* column count; and every gate stored has as many constraint names as
\* polynomials, and at least one polynomial.
C38_AppendOnly ==
    /\ [](\A g \in 1 .. Len(gates) :
            /\ Len(gates[g].constraint_names) = Len(gates[g].polys)
            /\ Len(gates[g].polys) >= 1)
    /\ [][/\ Extends(gates, gates')
          /\ Extends(advice_queries, advice_queries')
          /\ Extends(fixed_queries, fixed_queries')
          /\ Extends(instance_queries, instance_queries')
          /\ Extends(permutations, permutations')
          /\ Extends(lookups, lookups')
          /\ num_advice_columns <= num_advice_columns'
          /\ num_fixed_columns <= num_fixed_columns'
          /\ num_instance_columns <= num_instance_columns']_vars

\* A gate of two constraints, a lookup and entries in a query table were
\* stored, one after the other.
C38_Witness ==
    /\ Len(gates) >= 1
    /\ Len(gates[1].polys) = 2
    /\ Len(lookups) >= 1
    /\ Len(advice_queries) + Len(fixed_queries) + Len(instance_queries) >= 2

(***************************************************************************)
(* The witness sink on its own (src/plonk/prover.rs:116-221): every method *)
(* of Assignment called on a fresh WitnessCollection, with columns and     *)
(* rows inside and outside the storage allocated.  The caller returns the  *)
(* sink's error as FloorPlanner::synthesize's, and create_proof returns it *)
(* through the ? at line 221.  advice is the sink's storage, sink the      *)
(* calls it received, region_calls what each call found and returned.      *)
(***************************************************************************)
\* Calls made on one sink.
MaxSinkCalls == 3

\* A value producer that returns Ok(v).
ToValue(v) == [ok |-> TRUE, error |-> "none", value |-> v]

WitnessProducers == {ToValue(FOne), ToValue(2 % P), ToErr}

\* Advice columns, the last outside the witness; the first and the last row
\* of a column and the row after it.
WitnessColumns == {Column(i, "Advice") : i \in 0 .. NumAdvice}
WitnessRowsTried == {0, WitnessRows - 1, WitnessRows}

\* enter_region, exit_region, push_namespace, pop_namespace: "Do nothing".
WitnessDoNothing(adv) == adv

\* One call on the sink as the sink saw it: the storage before the call,
\* the producer handed over, the times it ran and the result.
WitnessCall(call, column, row, to, before, w) ==
    [call |-> call, column |-> column, row |-> row, to |-> to,
     before |-> before, to_calls |-> w.to_calls, result |-> w.result]

InitWitness ==
    /\ script = <<>>
    /\ pass = "assignment"
    /\ ran = <<"assignment">>
    /\ pc = 0
    /\ guards = <<>>
    /\ root = [pushes |-> 0, pops |-> 0]
    /\ measure = <<>>
    /\ plan = <<>>
    /\ replanned = NotReplanned
    /\ region_index = 0
    /\ sink = <<>>
    /\ advice = WitnessNew
    /\ given = [measurement |-> <<>>, assignment |-> <<>>]
    /\ region_calls = <<>>
    /\ result = Pending
    /\ ConstraintSystemInit
    /\ AssignedIdle
    /\ ColumnIdle
    /\ ExprIdle
    /\ ProofIdle
    /\ LookupIdle

\* The sink returned w to its caller: an error is returned up to
\* create_proof, which returns it.
SinkReturns(call, column, row, to, w) ==
    /\ pass = "assignment"
    /\ Len(sink) < MaxSinkCalls
    /\ sink' = Append(sink, SinkCall(call, column, row))
    /\ region_calls' = Append(region_calls,
                              WitnessCall(call, column, row, to, advice, w))
    /\ advice' = w.advice
    /\ IF w.result.ok
       THEN UNCHANGED <<pass, result, proof>>
       ELSE pass' = "returned" /\ result' = w.result /\ proof' = w.result

SinkAssignAdvice ==
    \E column \in WitnessColumns, row \in WitnessRowsTried,
       to \in WitnessProducers :
        SinkReturns("assign_advice", column, row, to,
                    WitnessAssignAdvice(advice, column, row, to))

SinkAssignFixed ==
    \E call \in {<<0, ToOk>>, <<WitnessRows, ToErr>>} :
        SinkReturns("assign_fixed", FixedA, call[1], call[2],
                    WitnessAssignFixed(advice, FixedA, call[1], call[2]))

SinkEnableSelector ==
    \E row \in {WitnessRows} :
        SinkReturns("enable_selector", SelectorA, row, ToOk,
                    [result |-> WitnessEnableSelector(SelectorA, row),
                     advice |-> advice, to_calls |-> 0])

SinkCopies ==
    \E left \in {Column(NumAdvice, "Advice")}, row \in {WitnessRows} :
        SinkReturns("copy", left, row, ToOk,
                    [result |-> WitnessCopy(PermutationA, left, row, AdviceA, 0),
                     advice |-> advice, to_calls |-> 0])

SinkDoesNothing ==
    \E call \in {"enter_region", "exit_region", "push_namespace",
                 "pop_namespace"} :
        SinkReturns(call, NoColumn, 0, ToOk,
                    [result |-> Ok, advice |-> WitnessDoNothing(advice),
                     to_calls |-> 0])

\* FloorPlanner::synthesize returns Ok(()); create_proof goes on.
SinkSynthesized ==
    /\ pass = "assignment"
    /\ pass' = "returned"
    /\ result' = Ok
    /\ UNCHANGED <<sink, region_calls, advice, proof>>

NextWitness ==
    /\ \/ SinkAssignAdvice
       \/ SinkAssignFixed
       \/ SinkEnableSelector
       \/ SinkCopies
       \/ SinkDoesNothing
       \/ SinkSynthesized
    /\ UNCHANGED <<script, ran, pc, guards, root, measure, plan, replanned,
                   region_index, given>>
    /\ UNCHANGED <<circuit_type, pk, instances, circuits, prover_meta, step,
                   transcript, configured, synthesized, opening>>
    /\ UNCHANGED <<assignedVars, columnVars, exprVars, csVars, lookupVars>>

SpecWitness == InitWitness /\ [][NextWitness]_vars

(***************************************************************************)
(* Properties of the witness sink (specification SpecWitness)              *)
(***************************************************************************)
\* The storage the k-th call left behind.
AdviceAfter(k) ==
    IF k < Len(region_calls) THEN region_calls[k + 1].before ELSE advice

WitnessCells == {<<c, r>> : c \in 0 .. (NumAdvice - 1), r \in 0 .. (WitnessRows - 1)}

\* The successful assign_advice calls to cell (c, r), by position.
AssignmentsTo(c, r) ==
    {k \in 1 .. Len(region_calls) :
        /\ region_calls[k].call = "assign_advice"
        /\ region_calls[k].result.ok
        /\ region_calls[k].column.index = c
        /\ region_calls[k].row = r}

\* The target of the k-th call is outside the storage allocated.
OutOfWitness(k) ==
    \/ region_calls[k].column.index >= NumAdvice
    \/ region_calls[k].row >= WitnessRows

\* C31: every call other than assign_advice returns Ok, runs no producer
\* and leaves every advice cell as it was; a successful assign_advice sets
\* its cell to the value produced and leaves every other cell as it was;
\* so each cell holds the value of the last successful assignment to it,
\* and the initial value when there was none.
C31_OnlyAdviceCells ==
    /\ \A k \in 1 .. Len(region_calls) :
          LET c == region_calls[k]
          IN  /\ c.call # "assign_advice" =>
                    /\ c.result = Ok
                    /\ c.to_calls = 0
                    /\ AdviceAfter(k) = c.before
              /\ (c.call = "assign_advice" /\ c.result.ok) =>
                    \A cell \in WitnessCells :
                        AdviceAfter(k)[cell[1]][cell[2]]
                            = IF cell = <<c.column.index, c.row>>
                              THEN c.to.value
                              ELSE c.before[cell[1]][cell[2]]
    /\ \A cell \in WitnessCells :
          LET to_cell == AssignmentsTo(cell[1], cell[2])
          IN  advice[cell[1]][cell[2]]
                = IF to_cell = {}
                  THEN FZero
                  ELSE region_calls[SetMax(to_cell)].to.value

\* A cell was assigned twice with different values and holds the second,
\* after an assign_fixed, and another cell was never assigned.
C31_Witness ==
    /\ Len(region_calls) = 3
    /\ region_calls[1].call = "assign_advice"
    /\ region_calls[2].call = "assign_fixed"
    /\ region_calls[3].call = "assign_advice"
    /\ AssignmentsTo(1, 0) = {1, 3}
    /\ region_calls[1].to.value # region_calls[3].to.value
    /\ advice[1][0] = region_calls[3].to.value
    /\ advice[1][0] # FZero
    /\ advice[0][0] = FZero

TimesRan(stage) == Cardinality({i \in 1 .. Len(ran) : ran[i] = stage})

\* The circuit's measurement pass ended in the error of its last call: a
\* region closure returned Err and the circuit returned it.
MeasurementFailed ==
    /\ script # <<>>
    /\ script[Len(script)].call = "assign_region"
    /\ ~script[Len(script)].closure.returns.ok
    /\ script[Len(script)].on_err = "return"
    /\ result = script[Len(script)].closure.returns

\* The assign_region calls of the circuit whose closure returns Ok.
SuccessfulRegions ==
    Cardinality({i \in 1 .. Len(script) :
                    /\ script[i].call = "assign_region"
                    /\ script[i].closure.returns.ok})

\* C34: V1::synthesize runs the assignment pass at most once, and once
\* when it has returned after a measurement pass that succeeded; before
\* the assignment pass starts, the measurement pass has ended, a start row
\* has been stored for every region measured, and nothing has reached the
\* sink; from then on the circuit's calls, the shapes and the start rows
\* stay as they are.
C34_AssignedOnceAfterPlacement ==
    /\ [](/\ TimesRan("assignment") <= 1
          /\ TimesRan("placement") <= 1
          /\ TimesRan("measurement") = 1
          /\ pass = "returned" =>
                \/ TimesRan("assignment") = 1
                \/ TimesRan("assignment") = 0 /\ MeasurementFailed
          /\ TimesRan("assignment") = 1 =>
                /\ ran = <<"measurement", "placement", "assignment">>
                /\ Len(measure) = SuccessfulRegions
                /\ Len(plan) = Len(measure)
          /\ TimesRan("assignment") = 0 =>
                /\ sink = <<>>
                /\ advice = WitnessNew
                /\ given.assignment = <<>>
                /\ \A i \in 1 .. Len(region_calls) :
                      region_calls[i].pass = "measurement")
    /\ [][TimesRan("assignment") = 1 =>
            /\ plan' = plan
            /\ measure' = measure
            /\ script' = script]_vars

\* V1::synthesize returned Ok after one assignment pass over two regions,
\* the second of which starts after row 0.
C34_Witness ==
    /\ pass = "returned"
    /\ result.ok
    /\ ran = <<"measurement", "placement", "assignment">>
    /\ given.assignment = <<0, 1>>
    /\ Len(plan) = 2
    /\ plan[1] > 0 \/ plan[2] > 0
    /\ Len(sink) > 0

(***************************************************************************)
(* V1Region::constrain_equal over any sink                                 *)
(* (src/circuit/floor_planner/v1.rs:284-299).  The regions were measured   *)
(* and placed; a region closure of the assignment pass calls               *)
(* constrain_equal on cells that its own region or an earlier one          *)
(* returned, as StandardPlonk::copy does (tests/plonk_api.rs:206-219), and *)
(* the sink's copy returns Ok or an error.                                 *)
(***************************************************************************)
\* Calls of constrain_equal made in one run.
MaxCopies == 1

\* What the copy of an Assignment sink can return.
CopyResults == {Ok, Err("SynthesisError")}

\* The columns of the regions measured: two rows of each.
CopyColumnSets == {{AdviceA}, {AdviceA, AdviceB}}

\* The cells the region with the given shape returned.
CellsOf(shape) ==
    {Cell(shape.region_index, o, c) : o \in shape.rows, c \in shape.columns}

\* The cells a closure of region index can hold.
CellsUpTo(index) ==
    UNION {CellsOf(measure[i]) : i \in 1 .. (index + 1)}

InitCopy ==
    /\ script = <<>>
    /\ pass = "assignment"
    /\ ran = <<"measurement", "placement", "assignment">>
    /\ pc = 0
    /\ guards = <<>>
    /\ root = [pushes |-> 0, pops |-> 0]
    /\ \E f \in [1 .. MaxRegions -> CopyColumnSets] :
        measure = [i \in 1 .. MaxRegions |-> ShapeOf(i - 1, f[i], 2)]
    /\ plan = slot_in_biggest_advice_first(measure)
    /\ replanned = NotReplanned
    /\ region_index = 0
    /\ sink = <<>>
    /\ advice = WitnessNew
    /\ given = [measurement |-> <<>>, assignment |-> <<>>]
    /\ region_calls = <<>>
    /\ result = Pending
    /\ ConstraintSystemInit
    /\ AssignedIdle
    /\ ColumnIdle
    /\ ExprIdle
    /\ ProofIdle
    /\ LookupIdle

\* The closure of region index calls region.constrain_equal(&permutation,
\* left, right)?, and the sink's copy returns copied.
CopyCells(index, left, right, copied) ==
    LET r == constrain_equal([sink |-> sink, advice |-> advice,
                              result |-> Ok, panicked |-> FALSE],
                             index, ConstrainEqual(0, 0), left, right, copied)
    IN  /\ pass = "assignment"
        /\ Len(sink) < MaxCopies
        /\ index + 1 >= region_index
        /\ region_index' = index + 1
        /\ sink' = r.st.sink
        /\ region_calls' = Append(region_calls,
                                  [call |-> r.call, left |-> left,
                                   right |-> right, copied |-> copied])
        /\ IF r.call.result.ok
           THEN UNCHANGED <<pass, result>>
           ELSE pass' = "returned" /\ result' = r.call.result

\* The closures and the circuit return Ok(()).
CopiesDone ==
    /\ pass = "assignment"
    /\ pass' = "returned"
    /\ result' = Ok
    /\ UNCHANGED <<region_index, sink, region_calls>>

NextCopy ==
    /\ \/ \E index \in 0 .. (Len(plan) - 1) :
            \E left \in CellsUpTo(index), right \in CellsUpTo(index),
               copied \in CopyResults :
                CopyCells(index, left, right, copied)
       \/ CopiesDone
    /\ UNCHANGED <<script, ran, pc, guards, root, measure, plan, replanned,
                   advice, given>>
    /\ UNCHANGED <<assignedVars, columnVars, exprVars, csVars, proofVars,
                   lookupVars>>

SpecCopy == InitCopy /\ [][NextCopy]_vars

(***************************************************************************)
(* Properties of constrain_equal (specification SpecCopy)                  *)
(***************************************************************************)
\* C39: every constrain_equal of the assignment pass makes one copy call on
\* the sink, with the column of each cell and the row RegionStart(region of
\* the cell) + offset of the cell, whatever region it is called in, and
\* returns what copy returned.
C39_CopyRows ==
    \A k \in 1 .. Len(region_calls) :
        LET c == region_calls[k]
        IN  /\ c.call.at = k
            /\ sink[k].call = "copy"
            /\ sink[k].column = c.left.column
            /\ sink[k].row = plan[c.left.region_index + 1] + c.left.row_offset
            /\ sink[k].right_column = c.right.column
            /\ sink[k].right_row
                  = plan[c.right.region_index + 1] + c.right.row_offset
            /\ c.call.result = c.copied
            /\ ~c.copied.ok => (pass = "returned" /\ result = c.copied)

\* constrain_equal was called in a region on a cell of an earlier region
\* that starts at another row, and copy's error came back.
C39_Witness ==
    /\ Len(region_calls) = 1
    /\ LET c == region_calls[1]
       IN  /\ c.left.region_index < c.call.region
           /\ c.right.region_index = c.call.region
           /\ plan[c.left.region_index + 1] # plan[c.call.region + 1]
           /\ plan[c.left.region_index + 1] > 0
           /\ c.left.row_offset > 0
           /\ ~c.call.result.ok
           /\ result = Err("SynthesisError")

(***************************************************************************)
(* Properties of the measurement pass (specification SpecV1Handled)        *)
(***************************************************************************)
\* The call the circuit made in this step of the measurement pass.
MeasuredCall == script'[Len(script')]

\* C40: while the measurement pass runs the sink receives nothing and the
\* witness stays as allocated, whatever namespaces are pushed and popped;
\* a step of the pass leaves the shapes as they are unless it is an
\* assign_region whose closure returned Ok, which appends one shape,
\* numbered by its position; so there is one shape per closure that
\* succeeded; and a sink that has received a call is in the assignment
\* pass.
C40_MeasurementReachesNoSink ==
    /\ [](/\ pass \in {"measurement", "placement"} =>
                /\ sink = <<>>
                /\ advice = WitnessNew
          /\ sink # <<>> => "assignment" \in Range(ran)
          /\ Len(measure) = SuccessfulRegions
          /\ \A k \in 1 .. Len(measure) : measure[k].region_index = k - 1)
    /\ [][(pass = "measurement" /\ Len(script') = Len(script) + 1) =>
            /\ sink' = <<>>
            /\ advice' = advice
            /\ plan' = plan
            /\ IF MeasuredCall.call = "assign_region"
                    /\ MeasuredCall.closure.returns.ok
               THEN /\ Len(measure') = Len(measure) + 1
                    /\ SubSeq(measure', 1, Len(measure)) = measure
               ELSE measure' = measure]_vars

\* In the measurement pass a namespace was pushed and popped, a closure
\* failed and the circuit went on, and a later closure succeeded: one shape
\* is held and the sink has received nothing.
C40_Witness ==
    /\ pass = "measurement"
    /\ root.pushes >= 1
    /\ root.pops >= 1
    /\ AssignRegionCalls(script) = 2
    /\ SuccessfulRegions = 1
    /\ Len(measure) = 1
    /\ measure[1].columns # {}
    /\ sink = <<>>
====
